---------------------------- MODULE Spec2Model ----------------------------
(***************************************************************************)
(* A model of the real-time audio plane of the radio server: the           *)
(* broadcaster (lossy fan-out of the frame stream to listeners), the       *)
(* pipeline (decoder stage, playback stage, skip) and the auto-DJ          *)
(* scheduler's run loop.                                                   *)
(*                                                                         *)
(* Channel capacities are kept as named definitions.  The capacities of    *)
(* the source (150 for Listener.C, 100 for frameCh, 8 for trackCh, 4 for   *)
(* decodedCh) are scaled down: the code depends on a capacity only through *)
(* the full / not full test of a channel send.                             *)
(***************************************************************************)
EXTENDS Integers, Sequences, FiniteSets, TLC

(***************************************************************************)
(* Bounds of the model.                                                    *)
(***************************************************************************)
MaxListeners == 2      \* listeners ever subscribed
MaxFrames    == 3      \* frames the source of the broadcaster delivers
ListenerCap  == 1      \* capacity of Listener.C (150 in the source)
FrameChCap   == 1      \* capacity of the frame channel (100 in the source)
MaxTracks    == 3      \* tracks ever passed to Enqueue
MaxTrackFrames == 4    \* frames of the longest decoded track
TrackChCap   == 2      \* capacity of trackCh (8 in the source)
DecodedChCap == 1      \* capacity of decodedCh (4 in the source)
MaxAttempts  == 3      \* calls of generateTrack
BufferAhead  == 2      \* cfg.BufferAhead (3 by default)
MaxResultItems == 2    \* items in the result JSON of a finished task
MixLen == 2            \* samples of the frames given to CrossfadeFrames
ProgressSteps == 4     \* progress values looked at are k / ProgressSteps
MaxDwell == 3          \* largest cfg.DwellMin and cfg.DwellMax, in seconds
MaxIdLen == 2          \* bytes of a track id given to TrackName

(***************************************************************************)
(* Constants of the frame model.                                           *)
(***************************************************************************)
SampleRate == 48000
Channels == 2
FrameSize == 960
FrameSamples == FrameSize * Channels
FrameDurationMs == 20
SkipChCap == 1
TickerCap == 1
DefaultTrackDuration == 90
MinTrackDuration == 15
MaxTrackDuration == 300

VARIABLES
  cancelled,      \* the cancel token (ctx.Done() is closed)
  frameCh,        \* the pipeline's output channel, the broadcaster's source
  frameChClosed,  \* close(frameCh) has happened
  srcNext,        \* number of the next frame the test source sends
  \* ---- Broadcaster
  listeners,      \* b.listeners: the set of listeners in the map
  created,        \* listeners Subscribe has returned
  lq,             \* l.C of each listener: the buffered frames
  ldone,          \* how many times l.done has been closed
  lunsub,         \* position of the Unsubscribe call on l: "no", "deleted", "closed"
  bpc,            \* position of Broadcaster.Run: "select", "fanout", "returned"
  bframe,         \* the frame Run holds during its pass over the listeners
  btodo,          \* listeners the range loop has not visited yet
  \* ---- Broadcaster, history
  bseq,           \* the frames Run has taken from its source, in order
  lrecv,          \* the frames each listener has dequeued, in order
  ldrop,          \* the frames Run dropped for each listener (default branch)
  lsubAt,         \* Len(bseq) when the listener was inserted
  \* ---- Pipeline
  crossfadeMs,    \* p.crossfadeDur, in milliseconds
  trackCh,        \* p.trackCh: the ids of the enqueued tracks
  nextTrack,      \* the id of the next track passed to Enqueue
  skipCh,         \* p.skipCh: the number of pending skips
  tickC,          \* ticker.C: the number of buffered ticks
  curTrack,       \* p.currentTrack (the track's id, 0 before the first)
  trackPosition,  \* p.trackPosition, in milliseconds
  trackDuration,  \* p.trackDuration, in milliseconds
  dpc,            \* decoder goroutine: "recv", "send", "returned"
  dheld,          \* the decoded track the decoder is about to send
  decodedCh,      \* decodedCh: the decoded tracks, each [id, len]
  decodedChClosed,
  ppc,            \* playback loop: "wait", "entry", "pre_tick", "pre_send", "peek",
                  \* "xf_tick", "xf_send", "tail_tick", "tail_send", "returned"
  dt,             \* the decoded track playTrack plays
  next,           \* the decoded track playTrack crossfades into
  startFrame,     \* Run's startFrame
  pi,             \* the loop index i of playTrack's current loop
  \* ---- Pipeline, history
  decodeFailed,   \* ids of the tracks whose decode failed
  playedSeq,      \* ids of the tracks setTrack made current, in order
  skippedTracks,  \* ids of the tracks during whose playback a skip was observed
  lastSkipAbandoned, \* the tracks the latest observed skip removed from playback
  skipOrigin,     \* where the pending skip was issued: "none", "idle", "playing"
  skipSinceStart, \* Skip was called since the track being played was dequeued
  idleSkipKilled, \* a skip issued while no track was playing has cut short a
                  \* track during which Skip was not called
  dtUsed,         \* the highest frame index of dt a sent frame holds (-1: none)
  nextUsed,       \* the highest frame index of next a sent frame holds (-1: none)
  \* ---- Scheduler
  currentGenre,   \* s.currentGenre
  autoDJ,         \* s.autoDJ
  dwellExpired,   \* time.Now().After(s.dwellEnd)
  lastCaption,    \* s.lastCaption: the attempt that made the last caption (0: none)
  cfgTrackDuration, \* s.cfg.TrackDuration, in seconds
  reqDuration,    \* Duration of the latest GenerateRequest (0: none yet)
  genreOverrideCh, \* s.genreOverrideCh: the pending overrides
  spc,            \* Scheduler.Run: "start", "top", "override", "dwell", "transition",
                  \* "buffer", "sleep", "submit", "gensleep", "poll", "pollreq",
                  \* "pollsleep", "enqueue", "returned"
  attempt,        \* number of generateTrack calls so far; the task id of the latest
  \* ---- Scheduler, history
  failedAttempts, \* the attempts that failed
  schedEnqueued,  \* the task ids generateTrack passed to Enqueue
  lastSetGenre,   \* the genre of the latest SetGenre call since the override
                  \* slot was last drained ("": no call since)
  tdRequested,    \* /api/config has handled a request that carries a track_duration
  \* ---- Scheduler, generateTrack ("" while generateTrack is not running)
  genGenre,       \* the local genre
  captionFor,     \* the genre the local caption was produced for
  genStart,       \* s.currentGenre at the moment generateTrack read it
  lastInfo,       \* the TrackInfo of the Enqueue call generateTrack has just made
                  \* (NoInfo once Run has gone on): its Genre, the genre its
                  \* caption was produced for and the genre at its start
  \* ---- Functions
  fnIn,           \* the arguments a function is called with
  fnOut           \* what the call returned

sharedVars == <<cancelled, frameCh, frameChClosed, srcNext>>
bVars == <<listeners, created, lq, ldone, lunsub, bpc, bframe, btodo>>
bHist == <<bseq, lrecv, ldrop, lsubAt>>
pVars == <<crossfadeMs, trackCh, nextTrack, skipCh, tickC, curTrack, trackPosition,
           trackDuration, dpc, dheld, decodedCh, decodedChClosed, ppc, dt, next,
           startFrame, pi>>
pHist == <<decodeFailed, playedSeq, skippedTracks, lastSkipAbandoned, skipOrigin,
           skipSinceStart, idleSkipKilled, dtUsed, nextUsed>>
sVars == <<currentGenre, autoDJ, dwellExpired, lastCaption, cfgTrackDuration, reqDuration,
           genreOverrideCh, spc, attempt>>
genLocals == <<genGenre, captionFor, genStart>>
sHist == <<failedAttempts, schedEnqueued, lastSetGenre, tdRequested, genLocals, lastInfo>>
fnVars == <<fnIn, fnOut>>
vars == <<sharedVars, bVars, bHist, pVars, pHist, sVars, sHist, fnVars>>
nonBroadcaster == <<pVars, pHist, sVars, sHist, fnVars>>
nonPipeline == <<srcNext, bVars, bHist, sVars, sHist, fnVars>>

ListenerIds == 1..MaxListeners
NoFrame == 0

(***************************************************************************)
(* Sequence helpers.                                                       *)
(***************************************************************************)
Range(s) == {s[i] : i \in 1..Len(s)}

RECURSIVE IsSubseq(_, _)
IsSubseq(s, t) ==
  IF s = <<>> THEN TRUE
  ELSE IF t = <<>> THEN FALSE
  ELSE IF Head(s) = Head(t) THEN IsSubseq(Tail(s), Tail(t))
  ELSE IsSubseq(s, Tail(t))

\* The first position of f in s
PosIn(s, f) == CHOOSE p \in 1..Len(s) : s[p] = f

NoDuplicates(s) == \A i, j \in 1..Len(s) : i # j => s[i] # s[j]

(***************************************************************************)
(* Broadcaster                                                             *)
(***************************************************************************)
InitShared ==
  /\ cancelled = FALSE
  /\ frameCh = <<>>
  /\ frameChClosed = FALSE
  /\ srcNext = 1

\* No function call is being looked at
NoValue == [kind |-> "none"]
InitFn == fnIn = NoValue /\ fnOut = NoValue

\* NewBroadcaster: an empty listener map
InitBroadcaster ==
  /\ listeners = {}
  /\ created = {}
  /\ lq = [l \in ListenerIds |-> <<>>]
  /\ ldone = [l \in ListenerIds |-> 0]
  /\ lunsub = [l \in ListenerIds |-> "no"]
  /\ bpc = "select"
  /\ bframe = NoFrame
  /\ btodo = {}
  /\ bseq = <<>>
  /\ lrecv = [l \in ListenerIds |-> <<>>]
  /\ ldrop = [l \in ListenerIds |-> {}]
  /\ lsubAt = [l \in ListenerIds |-> 0]

\* The non-blocking send of Run: select { case l.C <- frame: default: }
OfferOverwrite(q, f) == IF Len(q) < ListenerCap THEN Append(q, f) ELSE Append(Tail(q), f)
OfferUnbounded(q, f) == Append(q, f)
Offer(q, f) == IF Len(q) < ListenerCap THEN Append(q, f) ELSE q

\* b.listeners[l] = struct{}{}, the map being keyed by the listener's pointer
InsertReplaces(S, l) == {l}
Insert(S, l) == S \cup {l}

\* ListenerCount: len(b.listeners) under the read lock
ListenerCount == Cardinality(listeners)

\* Subscribe: a new listener with an empty queue, inserted under the write lock
\* (which Run's read lock excludes during a pass).
Subscribe ==
  /\ bpc # "fanout"
  /\ Cardinality(created) < MaxListeners
  /\ LET l == Cardinality(created) + 1 IN
       /\ created' = created \cup {l}
       /\ listeners' = Insert(listeners, l)
       /\ lsubAt' = [lsubAt EXCEPT ![l] = Len(bseq)]
  /\ UNCHANGED <<sharedVars, lq, ldone, lunsub, bpc, bframe, btodo, bseq, lrecv, ldrop, nonBroadcaster>>

\* delete(b.listeners, l)
DeleteKeeps(S, l) == S
Delete(S, l) == S \ {l}

\* Unsubscribe, first half: delete(b.listeners, l) under the write lock. Each
\* stream handler subscribes once and defers one Unsubscribe of its listener.
UnsubscribeDelete(l) ==
  /\ bpc # "fanout"
  /\ l \in created
  /\ lunsub[l] = "no"
  /\ listeners' = Delete(listeners, l)
  /\ lunsub' = [lunsub EXCEPT ![l] = "deleted"]
  /\ UNCHANGED <<sharedVars, created, lq, ldone, bpc, bframe, btodo, bHist, nonBroadcaster>>

\* Unsubscribe, second half: close(l.done) after the lock is released
UnsubscribeClose(l) ==
  /\ lunsub[l] = "deleted"
  /\ ldone' = [ldone EXCEPT ![l] = @ + 1]
  /\ lunsub' = [lunsub EXCEPT ![l] = "closed"]
  /\ UNCHANGED <<sharedVars, listeners, created, lq, bpc, bframe, btodo, bHist, nonBroadcaster>>

\* Run: for l := range b.listeners, the listeners a pass offers the frame to
FanOutTargetsCreated == created
FanOutTargets == listeners

\* Run: case frame, ok := <-source with ok true; takes the read lock
BRunRecv ==
  /\ bpc = "select"
  /\ frameCh # <<>>
  /\ bframe' = Head(frameCh)
  /\ frameCh' = Tail(frameCh)
  /\ bseq' = Append(bseq, Head(frameCh))
  /\ btodo' = FanOutTargets
  /\ bpc' = IF FanOutTargets = {} THEN "select" ELSE "fanout"
  /\ UNCHANGED <<cancelled, frameChClosed, srcNext, listeners, created, lq, ldone,
                 lunsub, lrecv, ldrop, lsubAt, nonBroadcaster>>

\* Run with a blocking send (l.C <- frame without the default branch)
BRunOfferBlocking(l) ==
  /\ bpc = "fanout"
  /\ l \in btodo
  /\ Len(lq[l]) < ListenerCap
  /\ lq' = [lq EXCEPT ![l] = Append(lq[l], bframe)]
  /\ btodo' = btodo \ {l}
  /\ bpc' = IF btodo = {l} THEN "select" ELSE "fanout"
  /\ UNCHANGED <<sharedVars, listeners, created, ldone, lunsub, bframe, bHist, nonBroadcaster>>

\* Run: one iteration of for l := range b.listeners; the read lock is released
\* after the last one.
BRunOffer(l) ==
  /\ bpc = "fanout"
  /\ l \in btodo
  /\ lq' = [lq EXCEPT ![l] = Offer(lq[l], bframe)]
  /\ ldrop' = [ldrop EXCEPT ![l] = IF Len(lq[l]) < ListenerCap THEN @ ELSE @ \cup {bframe}]
  /\ btodo' = btodo \ {l}
  /\ bpc' = IF btodo = {l} THEN "select" ELSE "fanout"
  /\ UNCHANGED <<sharedVars, listeners, created, ldone, lunsub, bframe, bseq, lrecv, lsubAt, nonBroadcaster>>

\* Run: case <-ctx.Done(): return
BRunCancel ==
  /\ bpc = "select"
  /\ cancelled
  /\ bpc' = "returned"
  /\ UNCHANGED <<sharedVars, listeners, created, lq, ldone, lunsub, bframe, btodo, bHist, nonBroadcaster>>

\* Run: case frame, ok := <-source with ok false: return
BRunSourceClosed ==
  /\ bpc = "select"
  /\ frameCh = <<>>
  /\ frameChClosed
  /\ bpc' = "returned"
  /\ UNCHANGED <<sharedVars, listeners, created, lq, ldone, lunsub, bframe, btodo, bHist, nonBroadcaster>>

\* A listener's consumer takes the next frame of l.C
ListenerRead(l) ==
  /\ l \in created
  /\ lq[l] # <<>>
  /\ lrecv' = [lrecv EXCEPT ![l] = Append(@, Head(lq[l]))]
  /\ lq' = [lq EXCEPT ![l] = Tail(@)]
  /\ UNCHANGED <<sharedVars, listeners, created, ldone, lunsub, bpc, bframe, btodo,
                 bseq, ldrop, lsubAt, nonBroadcaster>>

\* The producer of the broadcaster's source sends the next frame
SourceSend ==
  /\ ~frameChClosed
  /\ srcNext <= MaxFrames
  /\ Len(frameCh) < FrameChCap
  /\ frameCh' = Append(frameCh, srcNext)
  /\ srcNext' = srcNext + 1
  /\ UNCHANGED <<cancelled, frameChClosed, bVars, bHist, nonBroadcaster>>

\* The producer closes the source
SourceClose ==
  /\ ~frameChClosed
  /\ frameChClosed' = TRUE
  /\ UNCHANGED <<cancelled, frameCh, srcNext, bVars, bHist, nonBroadcaster>>

\* The cancel token fires
Cancel ==
  /\ ~cancelled
  /\ cancelled' = TRUE
  /\ UNCHANGED <<frameCh, frameChClosed, srcNext, bVars, bHist, pVars, pHist, sVars, sHist,
                 fnVars>>


(***************************************************************************)
(* Pipeline                                                                *)
(***************************************************************************)
NoTrack == [id |-> 0, len |-> 0]

\* The crossfade durations the pipeline is constructed with (milliseconds)
CrossfadeChoices == {0, 8000}

\* The lengths (in samples) DecodeFile returns for a track
SampleLens == {2 * FrameSamples, MaxTrackFrames * FrameSamples + 7}

TrackIds == 1..MaxTracks

\* NewPipeline(crossfadeDuration), and the locals of Run before its loop
InitPipeline(cf) ==
  /\ crossfadeMs = cf
  /\ trackCh = <<>>
  /\ nextTrack = 1
  /\ skipCh = 0
  /\ tickC = 0
  /\ curTrack = 0
  /\ trackPosition = 0
  /\ trackDuration = 0
  /\ dpc = "recv"
  /\ dheld = NoTrack
  /\ decodedCh = <<>>
  /\ decodedChClosed = FALSE
  /\ ppc = "wait"
  /\ dt = NoTrack
  /\ next = NoTrack
  /\ startFrame = 0
  /\ pi = 0
  /\ decodeFailed = {}
  /\ playedSeq = <<>>
  /\ skippedTracks = {}
  /\ lastSkipAbandoned = {}
  /\ skipOrigin = "none"
  /\ skipSinceStart = FALSE
  /\ idleSkipKilled = FALSE
  /\ dtUsed = -1
  /\ nextUsed = -1

\* playTrack: totalFrames := len(samples) / FrameSamples
TotalFramesCeil(len) == (len + FrameSamples - 1) \div FrameSamples
TotalFrames(len) == len \div FrameSamples

\* playTrack: int(p.crossfadeDur.Seconds()) * SampleRate / FrameSize
CfFramesConfigured == ((crossfadeMs \div 1000) * SampleRate) \div FrameSize

\* playTrack: cfFrames, clamped to half the track
CfFrames(len) ==
  IF CfFramesConfigured > TotalFrames(len) \div 2
  THEN TotalFrames(len) \div 2
  ELSE CfFramesConfigured

\* playTrack: cfStart := totalFrames - cfFrames
CfStart(len) == TotalFrames(len) - CfFrames(len)

\* The length of the slice samples[lo:hi] of a buffer of len samples; -1 stands
\* for the run-time panic of a slice out of range.
SliceLen(len, lo, hi) == IF 0 <= lo /\ lo <= hi /\ hi <= len THEN hi - lo ELSE -1

\* CrossfadeFrames: result := make([]int16, len(outgoing)); reads incoming[i]
\* for every index of outgoing.
CrossfadeLen(outLen, inLen) == IF outLen >= 0 /\ inLen >= outLen THEN outLen ELSE -1

\* The frame samples[i*FrameSamples:(i+1)*FrameSamples] of the track played
VerbatimFrame(t, i) ==
  [out |-> t.id, oi |-> i, in |-> 0, ii |-> 0,
   n |-> SliceLen(t.len, i * FrameSamples, (i + 1) * FrameSamples)]

\* The frame CrossfadeFrames(samples[outPos:...], next.samples[inPos:...], progress)
\* of iteration i of the crossfade loop
CrossfadedFrame(t, nx, i) ==
  [out |-> t.id, oi |-> CfStart(t.len) + i, in |-> nx.id, ii |-> i,
   n |-> CrossfadeLen(
           SliceLen(t.len, (CfStart(t.len) + i) * FrameSamples,
                    (CfStart(t.len) + i) * FrameSamples + FrameSamples),
           SliceLen(nx.len, i * FrameSamples, i * FrameSamples + FrameSamples))]

\* The loop condition of the crossfade loop together with its break
CrossfadeUnchecked(t, nx, i) == i < CfFrames(t.len)
CrossfadeContinues(t, nx, i) ==
  /\ i < CfFrames(t.len)
  /\ ~ \/ (CfStart(t.len) + i) * FrameSamples + FrameSamples > t.len
       \/ i * FrameSamples + FrameSamples > nx.len

TickStates == {"pre_tick", "xf_tick", "tail_tick"}
SendStates == {"pre_send", "xf_send", "tail_send"}
Playing == ppc \notin {"wait", "returned"}

\* The frame sendFrame was called with
CurrentFrame ==
  IF ppc \in {"xf_tick", "xf_send"} THEN CrossfadedFrame(dt, next, pi)
  ELSE VerbatimFrame(dt, pi)

\* A send on a buffered channel: the receiver gets the values in the order sent
ChanSendFront(q, x) == <<x>> \o q
ChanSend(q, x) == Append(q, x)

\* Enqueue: p.trackCh <- t, which waits while the channel is full
Enqueue ==
  /\ nextTrack <= MaxTracks
  /\ Len(trackCh) < TrackChCap
  /\ trackCh' = ChanSend(trackCh, nextTrack)
  /\ nextTrack' = nextTrack + 1
  /\ UNCHANGED <<cancelled, frameCh, frameChClosed, crossfadeMs, skipCh, tickC, curTrack,
                 trackPosition, trackDuration, dpc, dheld, decodedCh, decodedChClosed,
                 ppc, dt, next, startFrame, pi, pHist, nonPipeline>>

\* Skip: select { case p.skipCh <- struct{}{}: default: }
SkipLatch(n) == IF n < SkipChCap THEN n + 1 ELSE n

Skip ==
  /\ skipCh' = SkipLatch(skipCh)
  /\ skipOrigin' = IF skipCh < SkipChCap
                   THEN (IF ppc = "wait" THEN "idle" ELSE "playing")
                   ELSE skipOrigin
  /\ skipSinceStart' = (Playing \/ skipSinceStart)
  /\ UNCHANGED <<cancelled, frameCh, frameChClosed, crossfadeMs, trackCh, nextTrack, tickC,
                 curTrack, trackPosition, trackDuration, dpc, dheld, decodedCh,
                 decodedChClosed, ppc, dt, next, startFrame, pi, decodeFailed, playedSeq,
                 skippedTracks, lastSkipAbandoned, idleSkipKilled, dtUsed, nextUsed,
                 nonPipeline>>

\* The ticker delivers a tick (its channel buffers one; Run stops it on return)
Tick ==
  /\ ppc # "returned"
  /\ tickC < TickerCap
  /\ tickC' = tickC + 1
  /\ UNCHANGED <<cancelled, frameCh, frameChClosed, crossfadeMs, trackCh, nextTrack, skipCh,
                 curTrack, trackPosition, trackDuration, dpc, dheld, decodedCh,
                 decodedChClosed, ppc, dt, next, startFrame, pi, pHist, nonPipeline>>

\* The consumer of Frames() takes a frame
FrameRecv ==
  /\ frameCh # <<>>
  /\ frameCh' = Tail(frameCh)
  /\ UNCHANGED <<cancelled, frameChClosed, pVars, pHist, nonPipeline>>

\* ---- decoder goroutine
\* case t := <-p.trackCh, DecodeFile fails: log and continue
DecoderRecvFail ==
  /\ dpc = "recv"
  /\ trackCh # <<>>
  /\ trackCh' = Tail(trackCh)
  /\ decodeFailed' = decodeFailed \cup {Head(trackCh)}
  /\ UNCHANGED <<cancelled, frameCh, frameChClosed, crossfadeMs, nextTrack, skipCh, tickC,
                 curTrack, trackPosition, trackDuration, dpc, dheld, decodedCh,
                 decodedChClosed, ppc, dt, next, startFrame, pi, playedSeq, skippedTracks,
                 lastSkipAbandoned, skipOrigin, skipSinceStart, idleSkipKilled, dtUsed,
                 nextUsed, nonPipeline>>

\* case t := <-p.trackCh, DecodeFile returns len samples
DecoderRecvOk(len) ==
  /\ dpc = "recv"
  /\ trackCh # <<>>
  /\ trackCh' = Tail(trackCh)
  /\ dheld' = [id |-> Head(trackCh), len |-> len]
  /\ dpc' = "send"
  /\ UNCHANGED <<cancelled, frameCh, frameChClosed, crossfadeMs, nextTrack, skipCh, tickC,
                 curTrack, trackPosition, trackDuration, decodedCh, decodedChClosed,
                 ppc, dt, next, startFrame, pi, pHist, nonPipeline>>

\* case decodedCh <- &decodedTrack{...}
DecoderSend ==
  /\ dpc = "send"
  /\ Len(decodedCh) < DecodedChCap
  /\ decodedCh' = ChanSend(decodedCh, dheld)
  /\ dheld' = NoTrack
  /\ dpc' = "recv"
  /\ UNCHANGED <<cancelled, frameCh, frameChClosed, crossfadeMs, trackCh, nextTrack, skipCh,
                 tickC, curTrack, trackPosition, trackDuration, decodedChClosed,
                 ppc, dt, next, startFrame, pi, pHist, nonPipeline>>

\* case <-ctx.Done(): return, in either select; defer close(decodedCh)
DecoderCancel ==
  /\ dpc \in {"recv", "send"}
  /\ cancelled
  /\ dpc' = "returned"
  /\ dheld' = NoTrack
  /\ decodedChClosed' = TRUE
  /\ UNCHANGED <<cancelled, frameCh, frameChClosed, crossfadeMs, trackCh, nextTrack, skipCh,
                 tickC, curTrack, trackPosition, trackDuration, decodedCh,
                 ppc, dt, next, startFrame, pi, pHist, nonPipeline>>

\* ---- playback loop
decoderSide == <<crossfadeMs, trackCh, nextTrack, dpc, dheld, decodedChClosed, decodeFailed>>
statusVars == <<curTrack, trackPosition, trackDuration>>
skipHist == <<skippedTracks, lastSkipAbandoned, skipOrigin, skipSinceStart, idleSkipKilled>>
usedHist == <<dtUsed, nextUsed>>

\* The larger of two frame indices
Later(a, b) == IF a > b THEN a ELSE b

\* The highest frame index of next in use once the step has sent its frame
NextUsedAfter == IF ppc = "xf_send" THEN Later(nextUsed, pi) ELSE nextUsed

\* What playTrack returns when sendFrame returns false: return nil, 0
PlayAbortKeepsNext == [track |-> next, start |-> CfFrames(dt.len)]
PlayAbort == [track |-> NoTrack, start |-> 0]

\* Run after playTrack has returned r: pending and startFrame are set, and a
\* pending track is taken at once by the next iteration.
Returned(r) ==
  /\ dt' = r.track
  /\ next' = NoTrack
  /\ startFrame' = IF r.track # NoTrack THEN r.start ELSE 0
  /\ ppc' = IF r.track # NoTrack THEN "entry" ELSE "wait"
  /\ pi' = 0
  /\ dtUsed' = IF r.track # NoTrack THEN NextUsedAfter ELSE -1
  /\ nextUsed' = -1

\* Run: case d, ok := <-decodedCh with ok true
PlayWaitRecv ==
  /\ ppc = "wait"
  /\ decodedCh # <<>>
  /\ dt' = Head(decodedCh)
  /\ decodedCh' = Tail(decodedCh)
  /\ startFrame' = 0
  /\ ppc' = "entry"
  /\ skipSinceStart' = FALSE
  /\ dtUsed' = -1
  /\ nextUsed' = -1
  /\ UNCHANGED <<cancelled, frameCh, frameChClosed, decoderSide, statusVars, skipCh, tickC,
                 next, pi, playedSeq, skippedTracks, lastSkipAbandoned, skipOrigin,
                 idleSkipKilled, nonPipeline>>

\* Run: case <-ctx.Done(): return; the deferred close(p.frameCh) and ticker.Stop()
PlayWaitCancel ==
  /\ ppc = "wait"
  /\ cancelled
  /\ ppc' = "returned"
  /\ frameChClosed' = TRUE
  /\ UNCHANGED <<cancelled, frameCh, decoderSide, statusVars, skipCh, tickC, decodedCh,
                 dt, next, startFrame, pi, playedSeq, skipHist, usedHist, nonPipeline>>

\* Run: case d, ok := <-decodedCh with ok false: return
PlayWaitClosed ==
  /\ ppc = "wait"
  /\ decodedCh = <<>>
  /\ decodedChClosed
  /\ ppc' = "returned"
  /\ frameChClosed' = TRUE
  /\ UNCHANGED <<cancelled, frameCh, decoderSide, statusVars, skipCh, tickC, decodedCh,
                 dt, next, startFrame, pi, playedSeq, skipHist, usedHist, nonPipeline>>

\* playTrack up to its first loop: the frame counts, then setTrack
PlayEntry ==
  /\ ppc = "entry"
  /\ curTrack' = dt.id
  /\ trackPosition' = 0
  /\ trackDuration' = TotalFrames(dt.len) * FrameDurationMs
  /\ playedSeq' = Append(playedSeq, dt.id)
  /\ pi' = startFrame
  /\ ppc' = IF startFrame < CfStart(dt.len) THEN "pre_tick" ELSE "peek"
  /\ UNCHANGED <<cancelled, frameCh, frameChClosed, decoderSide, skipCh, tickC, decodedCh,
                 dt, next, startFrame, skipHist, usedHist, nonPipeline>>

\* sendFrame, first select: case <-ctx.Done(): return false
SendTickCancel ==
  /\ ppc \in TickStates
  /\ cancelled
  /\ Returned(PlayAbort)
  /\ UNCHANGED <<cancelled, frameCh, frameChClosed, decoderSide, statusVars, skipCh, tickC,
                 decodedCh, playedSeq, skipHist, nonPipeline>>

\* sendFrame, first select: case <-p.skipCh: return false
SendTickSkip ==
  /\ ppc \in TickStates
  /\ skipCh > 0
  /\ skipCh' = skipCh - 1
  /\ Returned(PlayAbort)
  /\ skippedTracks' = skippedTracks \cup {dt.id}
  /\ lastSkipAbandoned' = {dt.id} \cup (IF next # NoTrack THEN {next.id} ELSE {})
  /\ idleSkipKilled' = (idleSkipKilled \/ (skipOrigin = "idle" /\ ~skipSinceStart))
  /\ skipOrigin' = "none"
  /\ UNCHANGED <<cancelled, frameCh, frameChClosed, decoderSide, statusVars, tickC,
                 decodedCh, playedSeq, skipSinceStart, nonPipeline>>

\* sendFrame going on to its send whether or not a tick is there
SendTickFree ==
  /\ ppc \in TickStates
  /\ ppc' = CASE ppc = "pre_tick" -> "pre_send"
              [] ppc = "xf_tick" -> "xf_send"
              [] ppc = "tail_tick" -> "tail_send"
  /\ UNCHANGED <<cancelled, frameCh, frameChClosed, decoderSide, statusVars, skipCh, tickC,
                 decodedCh, dt, next, startFrame, pi, playedSeq, skipHist, usedHist,
                 nonPipeline>>

\* sendFrame, first select: case <-ticker.C
SendTickTick ==
  /\ ppc \in TickStates
  /\ tickC > 0
  /\ tickC' = tickC - 1
  /\ ppc' = CASE ppc = "pre_tick" -> "pre_send"
              [] ppc = "xf_tick" -> "xf_send"
              [] ppc = "tail_tick" -> "tail_send"
  /\ UNCHANGED <<cancelled, frameCh, frameChClosed, decoderSide, statusVars, skipCh,
                 decodedCh, dt, next, startFrame, pi, playedSeq, skipHist, usedHist,
                 nonPipeline>>

\* The frame index playTrack passes to updatePosition after a frame is sent:
\* i in the first and the last loop, cfStart + i in the crossfade loop
PositionIndexIncoming == pi
PositionIndex == IF ppc = "xf_send" THEN CfStart(dt.len) + pi ELSE pi

\* sendFrame, second select: case p.frameCh <- frame: return true; then
\* updatePosition and the loop's next test
SendFrameOk ==
  /\ ppc \in SendStates
  /\ Len(frameCh) < FrameChCap
  /\ frameCh' = Append(frameCh, CurrentFrame)
  /\ trackPosition' = PositionIndex * FrameDurationMs
  /\ CASE ppc = "pre_send" ->
            /\ pi' = IF pi + 1 < CfStart(dt.len) THEN pi + 1 ELSE 0
            /\ ppc' = IF pi + 1 < CfStart(dt.len) THEN "pre_tick" ELSE "peek"
            /\ dtUsed' = Later(dtUsed, CurrentFrame.oi)
            /\ UNCHANGED <<dt, next, startFrame, nextUsed>>
       [] ppc = "xf_send" ->
            IF CrossfadeContinues(dt, next, pi + 1)
            THEN /\ pi' = pi + 1
                 /\ ppc' = "xf_tick"
                 /\ dtUsed' = Later(dtUsed, CurrentFrame.oi)
                 /\ nextUsed' = NextUsedAfter
                 /\ UNCHANGED <<dt, next, startFrame>>
            ELSE Returned([track |-> next, start |-> CfFrames(dt.len)])
       [] ppc = "tail_send" ->
            IF pi + 1 < TotalFrames(dt.len)
            THEN /\ pi' = pi + 1
                 /\ ppc' = "tail_tick"
                 /\ dtUsed' = Later(dtUsed, CurrentFrame.oi)
                 /\ UNCHANGED <<dt, next, startFrame, nextUsed>>
            ELSE Returned([track |-> NoTrack, start |-> 0])
  /\ UNCHANGED <<cancelled, frameChClosed, decoderSide, curTrack, trackDuration, skipCh,
                 tickC, decodedCh, playedSeq, skipHist, nonPipeline>>

\* sendFrame with a second select that has no case <-ctx.Done()
SendWithoutCancel == FALSE /\ UNCHANGED vars

\* sendFrame, second select: case <-ctx.Done(): return false
SendCancel ==
  /\ ppc \in SendStates
  /\ cancelled
  /\ Returned(PlayAbort)
  /\ UNCHANGED <<cancelled, frameCh, frameChClosed, decoderSide, statusVars, skipCh, tickC,
                 decodedCh, playedSeq, skipHist, nonPipeline>>

\* playTrack at cfStart: case d := <-decodedCh; then the crossfade loop
PlayPeekNext ==
  /\ ppc = "peek"
  /\ decodedCh # <<>>
  /\ decodedCh' = Tail(decodedCh)
  /\ IF CrossfadeContinues(dt, Head(decodedCh), 0)
     THEN /\ next' = Head(decodedCh)
          /\ pi' = 0
          /\ ppc' = "xf_tick"
          /\ UNCHANGED <<dt, startFrame, usedHist>>
     ELSE Returned([track |-> Head(decodedCh), start |-> CfFrames(dt.len)])
  /\ UNCHANGED <<cancelled, frameCh, frameChClosed, decoderSide, statusVars, skipCh, tickC,
                 playedSeq, skipHist, nonPipeline>>

\* The first index of the tail loop: for i := cfStart; i < totalFrames; i++
TailStartAfter(t) == CfStart(t.len) + 1
TailStart(t) == CfStart(t.len)

\* playTrack at cfStart: default (or a closed, empty decodedCh); then the tail loop
PlayPeekNone ==
  /\ ppc = "peek"
  /\ decodedCh = <<>>
  /\ IF TailStart(dt) < TotalFrames(dt.len)
     THEN /\ pi' = TailStart(dt)
          /\ ppc' = "tail_tick"
          /\ UNCHANGED <<dt, next, startFrame, usedHist>>
     ELSE Returned([track |-> NoTrack, start |-> 0])
  /\ UNCHANGED <<cancelled, frameCh, frameChClosed, decoderSide, statusVars, skipCh, tickC,
                 decodedCh, playedSeq, skipHist, nonPipeline>>

(***************************************************************************)
(* Scheduler                                                               *)
(***************************************************************************)
\* MoodGraph: the neighbours of each genre; a genre outside the graph has none
AdjacentCut(g) ==
  CASE g = "ambient" -> {"chillwave", "classical"}
    [] g = "chillwave" -> {"ambient", "lofi hip hop", "classical"}
    [] g = "lofi hip hop" -> {"chillwave", "jazz"}
    [] g = "jazz" -> {"lofi hip hop", "bossa nova", "acoustic folk"}
    [] g = "bossa nova" -> {"jazz"}
    [] g = "acoustic folk" -> {"jazz"}
    [] g = "classical" -> {"ambient", "chillwave", "cinematic"}
    [] g = "cinematic" -> {"classical"}
    [] g = "synthwave" -> {"electronic", "indie rock"}
    [] g = "electronic" -> {"synthwave", "drum and bass", "disco funk"}
    [] g = "drum and bass" -> {"electronic"}
    [] g = "disco funk" -> {"electronic", "rock"}
    [] g = "indie rock" -> {"synthwave", "rock"}
    [] g = "rock" -> {"indie rock", "disco funk"}
    [] OTHER -> {}
Adjacent(g) ==
  CASE g = "ambient" -> {"chillwave", "classical"}
    [] g = "chillwave" -> {"ambient", "lofi hip hop", "classical", "synthwave"}
    [] g = "lofi hip hop" -> {"chillwave", "jazz"}
    [] g = "jazz" -> {"lofi hip hop", "bossa nova", "acoustic folk"}
    [] g = "bossa nova" -> {"jazz"}
    [] g = "acoustic folk" -> {"jazz"}
    [] g = "classical" -> {"ambient", "chillwave", "cinematic"}
    [] g = "cinematic" -> {"classical", "indie rock"}
    [] g = "synthwave" -> {"chillwave", "electronic", "indie rock"}
    [] g = "electronic" -> {"synthwave", "drum and bass", "disco funk"}
    [] g = "drum and bass" -> {"electronic"}
    [] g = "disco funk" -> {"electronic", "rock"}
    [] g = "indie rock" -> {"cinematic", "synthwave", "rock"}
    [] g = "rock" -> {"indie rock", "disco funk"}
    [] OTHER -> {}

\* cfg.StartingGenre (RADIO_GENRE, "lofi hip hop" by default)
StartingGenre == "lofi hip hop"

\* The genres the /api/genre handler passes to SetGenre (it rejects a genre
\* IsValidGenre does not know)
OverrideGenres == {"jazz", "rock"}

\* RADIO_GENRE is not validated: a starting genre outside the graph
StartingGenres == {StartingGenre, "polka"}

\* GenreNames: the genres of the graph
GenreNames ==
  {"ambient", "chillwave", "lofi hip hop", "jazz", "bossa nova", "acoustic folk",
   "classical", "cinematic", "synthwave", "electronic", "drum and bass", "disco funk",
   "indie rock", "rock"}

\* NewScheduler, before Run is started
NoInfo == [Genre |-> "", captionFor |-> "", startedIn |-> ""]

InitSchedulerCfg(genre, duration) ==
  /\ currentGenre = genre
  /\ autoDJ = TRUE
  /\ dwellExpired = TRUE
  /\ lastCaption = 0
  /\ cfgTrackDuration = duration
  /\ reqDuration = 0
  /\ genreOverrideCh = <<>>
  /\ spc = "start"
  /\ attempt = 0
  /\ failedAttempts = {}
  /\ schedEnqueued = {}
  /\ lastSetGenre = ""
  /\ tdRequested = FALSE
  /\ genGenre = ""
  /\ captionFor = ""
  /\ genStart = ""
  /\ lastInfo = NoInfo

InitSchedulerWith(genre) == InitSchedulerCfg(genre, DefaultTrackDuration)

InitScheduler == InitSchedulerWith(StartingGenre)

\* What a scheduler step leaves alone besides the scheduler's own variables
pExceptTrackCh == <<crossfadeMs, nextTrack, skipCh, tickC, curTrack, trackPosition,
                    trackDuration, dpc, dheld, decodedCh, decodedChClosed, ppc, dt,
                    next, startFrame, pi>>
nonScheduler == <<sharedVars, bVars, bHist, pExceptTrackCh, pHist, trackCh, fnVars>>

\* SetGenre: select { case s.genreOverrideCh <- genre: default: }
SetGenre(g) ==
  /\ genreOverrideCh' = IF Len(genreOverrideCh) < 1 THEN Append(genreOverrideCh, g)
                        ELSE genreOverrideCh
  /\ lastSetGenre' = g
  /\ UNCHANGED <<currentGenre, autoDJ, dwellExpired, lastCaption, cfgTrackDuration, reqDuration, spc, attempt,
                 failedAttempts, schedEnqueued, tdRequested, genLocals, lastInfo, nonScheduler>>

\* SetAutoDJ: s.autoDJ = enabled; if enabled { s.resetDwell() }
DwellAlwaysReset(enabled) == FALSE
DwellAfterSetAutoDJ(enabled) == IF enabled THEN FALSE ELSE dwellExpired

SetAutoDJ(enabled) ==
  /\ autoDJ' = enabled
  /\ dwellExpired' = DwellAfterSetAutoDJ(enabled)
  /\ UNCHANGED <<currentGenre, lastCaption, cfgTrackDuration, reqDuration, genreOverrideCh, spc, attempt, sHist,
                 nonScheduler>>

\* The values of RADIO_TRACK_DURATION the model starts with, and the
\* track_duration values of the /api/config requests
ConfiguredDurations == {DefaultTrackDuration, 60}
TrackDurationInputs ==
  {MinTrackDuration - 1, MinTrackDuration, MaxTrackDuration, MaxTrackDuration + 1}

\* SetTrackDuration: s.cfg.TrackDuration = seconds
SetTrackDuration(seconds) ==
  /\ cfgTrackDuration' = seconds
  /\ UNCHANGED <<currentGenre, autoDJ, dwellExpired, lastCaption, reqDuration,
                 genreOverrideCh, spc, attempt, failedAttempts, schedEnqueued,
                 lastSetGenre, genLocals, lastInfo, nonScheduler>>

\* The /api/config handler: if v < 15 || v > 300 { http.Error(...); return }
AcceptsAnyDuration(v) == TRUE
AcceptsDuration(v) == ~(v < MinTrackDuration \/ v > MaxTrackDuration)

\* The /api/config handler with a track_duration in the request
ApiConfigTrackDuration(v) ==
  /\ tdRequested' = TRUE
  /\ IF AcceptsDuration(v)
     THEN SetTrackDuration(v)
     ELSE UNCHANGED <<sVars, failedAttempts, schedEnqueued, lastSetGenre, genLocals,
                      lastInfo, nonScheduler>>

\* The clock passes s.dwellEnd
DwellElapse ==
  /\ ~dwellExpired
  /\ dwellExpired' = TRUE
  /\ UNCHANGED <<currentGenre, autoDJ, lastCaption, cfgTrackDuration, reqDuration, genreOverrideCh, spc, attempt, sHist,
                 nonScheduler>>

\* Run, before the loop: s.resetDwell()
SRunStart ==
  /\ spc = "start"
  /\ dwellExpired' = FALSE
  /\ spc' = "top"
  /\ UNCHANGED <<currentGenre, autoDJ, lastCaption, cfgTrackDuration, reqDuration, genreOverrideCh, attempt, sHist,
                 nonScheduler>>

\* select { case <-ctx.Done(): return; default: }
SRunCancelled ==
  /\ spc = "top"
  /\ cancelled
  /\ spc' = "returned"
  /\ lastInfo' = NoInfo
  /\ UNCHANGED <<currentGenre, autoDJ, dwellExpired, lastCaption, cfgTrackDuration, reqDuration, genreOverrideCh, attempt,
                 failedAttempts, schedEnqueued, lastSetGenre, tdRequested, genLocals,
                 nonScheduler>>

SRunContinue ==
  /\ spc = "top"
  /\ ~cancelled
  /\ spc' = "override"
  /\ lastInfo' = NoInfo
  /\ UNCHANGED <<currentGenre, autoDJ, dwellExpired, lastCaption, cfgTrackDuration, reqDuration, genreOverrideCh, attempt,
                 failedAttempts, schedEnqueued, lastSetGenre, tdRequested, genLocals,
                 nonScheduler>>

\* select { case genre := <-s.genreOverrideCh: ...; default: }
SRunOverride ==
  /\ spc = "override"
  /\ IF genreOverrideCh # <<>>
     THEN /\ currentGenre' = Head(genreOverrideCh)
          /\ genreOverrideCh' = Tail(genreOverrideCh)
          /\ dwellExpired' = FALSE
          /\ lastSetGenre' = ""
     ELSE UNCHANGED <<currentGenre, genreOverrideCh, dwellExpired, lastSetGenre>>
  /\ spc' = "dwell"
  /\ UNCHANGED <<autoDJ, lastCaption, cfgTrackDuration, reqDuration, attempt, failedAttempts, schedEnqueued,
                 tdRequested, genLocals, lastInfo, nonScheduler>>

\* autoDJ := s.autoDJ; expired := time.Now().After(s.dwellEnd)
SRunDwell ==
  /\ spc = "dwell"
  /\ spc' = IF autoDJ /\ dwellExpired THEN "transition" ELSE "buffer"
  /\ UNCHANGED <<currentGenre, autoDJ, dwellExpired, lastCaption, cfgTrackDuration, reqDuration, genreOverrideCh, attempt,
                 sHist, nonScheduler>>

\* transitionGenre
\* The genres transitionGenre can leave in s.currentGenre
TransitionTargetsAny(g) == GenreNames
TransitionTargets(g) == IF Adjacent(g) = {} THEN {g} ELSE Adjacent(g)

STransition ==
  /\ spc = "transition"
  /\ \E g \in TransitionTargets(currentGenre) : currentGenre' = g
  /\ dwellExpired' = FALSE
  /\ spc' = "buffer"
  /\ UNCHANGED <<autoDJ, lastCaption, cfgTrackDuration, reqDuration, genreOverrideCh, attempt, sHist, nonScheduler>>

\* generateTrack returns: its locals are gone
GenerateReturns ==
  /\ genGenre' = ""
  /\ captionFor' = ""
  /\ genStart' = ""

\* The genre the caption is produced for: captionFn(llmCtx, genre), and
\* GetCaption(genre) when that gives nothing
CaptionGenreConfigured(genre) == StartingGenre
CaptionGenre(genre) == genre

\* The TrackInfo generateTrack passes to Enqueue
TrackInfoGenreConfigured == StartingGenre
TrackInfoGenre == genGenre

\* if s.pipeline.QueueSize() < s.cfg.BufferAhead { generateTrack } else { Sleep }
\* generateTrack up to its call of Generate: a caption is made and stored
BufferLowInclusive == Len(trackCh) <= BufferAhead
BufferLow == Len(trackCh) < BufferAhead

SRunBufferLow ==
  /\ spc = "buffer"
  /\ BufferLow
  /\ attempt < MaxAttempts
  /\ attempt' = attempt + 1
  /\ lastCaption' = attempt + 1
  /\ reqDuration' = cfgTrackDuration
  /\ genGenre' = currentGenre
  /\ captionFor' = CaptionGenre(currentGenre)
  /\ genStart' = currentGenre
  /\ spc' = "submit"
  /\ UNCHANGED <<cfgTrackDuration, currentGenre, autoDJ, dwellExpired, genreOverrideCh,
                 failedAttempts, schedEnqueued, lastSetGenre, tdRequested, lastInfo,
                 nonScheduler>>

SRunBufferFull ==
  /\ spc = "buffer"
  /\ ~BufferLow
  /\ spc' = "sleep"
  /\ UNCHANGED <<currentGenre, autoDJ, dwellExpired, lastCaption, cfgTrackDuration, reqDuration, genreOverrideCh, attempt,
                 sHist, nonScheduler>>

\* time.Sleep returns: after the full-buffer sleep, after the sleep that
\* follows a Generate error, or after the poll interval
AfterSleepSkipsDrain(pc) == IF pc = "pollsleep" THEN "poll" ELSE "buffer"
AfterSleep(pc) == IF pc = "pollsleep" THEN "poll" ELSE "top"

SSleepDone ==
  /\ spc \in {"sleep", "gensleep", "pollsleep"}
  /\ spc' = AfterSleep(spc)
  /\ UNCHANGED <<currentGenre, autoDJ, dwellExpired, lastCaption, cfgTrackDuration, reqDuration, genreOverrideCh, attempt,
                 sHist, nonScheduler>>

\* Where generateTrack goes when s.client.Generate returned an error:
\* time.Sleep(5 * time.Second); return
GenerateErrorNext == "gensleep"

\* Where generateTrack goes when PollUntilDone returned an error: return
PollErrorFallsThrough == "enqueue"
PollErrorNext == "top"

\* The attempt has failed; generateTrack goes to pc
AttemptFails(pc) ==
  /\ failedAttempts' = failedAttempts \cup {attempt}
  /\ spc' = pc
  /\ GenerateReturns
  /\ UNCHANGED <<currentGenre, autoDJ, dwellExpired, lastCaption, cfgTrackDuration, reqDuration, genreOverrideCh, attempt,
                 schedEnqueued, lastSetGenre, tdRequested, lastInfo, nonScheduler>>

\* s.client.Generate returns a task id
SGenerateOk ==
  /\ spc = "submit"
  /\ spc' = "poll"
  /\ UNCHANGED <<currentGenre, autoDJ, dwellExpired, lastCaption, cfgTrackDuration, reqDuration, genreOverrideCh, attempt,
                 sHist, nonScheduler>>

\* s.client.Generate returns an error (transport, decode, or code # 200)
SGenerateErr ==
  /\ spc = "submit"
  /\ AttemptFails(GenerateErrorNext)

\* PollUntilDone: whether the select at the head of its loop finds ctx.Done()
PollIgnoresCancel == FALSE
PollSeesCancel == cancelled

\* PollUntilDone: select { case <-ctx.Done(): return "", ctx.Err(); default: }
SPollCancelled ==
  /\ spc = "poll"
  /\ PollSeesCancel
  /\ AttemptFails(PollErrorNext)

SPollContinue ==
  /\ spc = "poll"
  /\ ~PollSeesCancel
  /\ spc' = "pollreq"
  /\ UNCHANGED <<currentGenre, autoDJ, dwellExpired, lastCaption, cfgTrackDuration, reqDuration, genreOverrideCh, attempt,
                 sHist, nonScheduler>>

\* What a round of PollUntilDone can get for its query: no response, a
\* response that does not decode, an empty result list, or the status of the
\* first result (1 success, 2 failed, anything else still running)
PollResponses == {"transport_error", "decode_error", "empty", "running", "success", "failed"}

\* What the round does with it: sleep the interval and go round again, return
\* what extractAudioPath returns, or return an error
PollOutcomeEmptyFails(resp) ==
  CASE resp = "success" -> "resolve"
    [] resp \in {"failed", "empty"} -> "error"
    [] OTHER -> "retry"
PollOutcome(resp) ==
  CASE resp = "success" -> "resolve"
    [] resp = "failed" -> "error"
    [] OTHER -> "retry"

\* The query fails in transport, its response does not decode, the result
\* list is empty, or the task is still running: time.Sleep(interval)
SPollRetry ==
  /\ spc = "pollreq"
  /\ \E resp \in PollResponses : PollOutcome(resp) = "retry"
  /\ spc' = "pollsleep"
  /\ UNCHANGED <<currentGenre, autoDJ, dwellExpired, lastCaption, cfgTrackDuration, reqDuration, genreOverrideCh, attempt,
                 sHist, nonScheduler>>

\* case 2: the task failed
SPollFailed ==
  /\ spc = "pollreq"
  /\ \E resp \in PollResponses : PollOutcome(resp) = "error"
  /\ AttemptFails(PollErrorNext)

\* case 1: the task succeeded and extractAudioPath returns an error
SPollNoPath ==
  /\ spc = "pollreq"
  /\ \E resp \in PollResponses : PollOutcome(resp) = "resolve"
  /\ AttemptFails(PollErrorNext)

\* case 1: the task succeeded and extractAudioPath returns a path
SPollSuccess ==
  /\ spc = "pollreq"
  /\ \E resp \in PollResponses : PollOutcome(resp) = "resolve"
  /\ spc' = "enqueue"
  /\ UNCHANGED <<currentGenre, autoDJ, dwellExpired, lastCaption, cfgTrackDuration, reqDuration, genreOverrideCh, attempt,
                 sHist, nonScheduler>>

\* The round of PollUntilDone whose query got resp
SPollAnswer(resp) ==
  CASE PollOutcome(resp) = "retry" -> SPollRetry
    [] PollOutcome(resp) = "error" -> SPollFailed
    [] PollOutcome(resp) = "resolve" -> SPollNoPath \/ SPollSuccess

\* s.pipeline.Enqueue(audio.TrackInfo{ID: taskID, ...})
SEnqueue ==
  /\ spc = "enqueue"
  /\ Len(trackCh) < TrackChCap
  /\ trackCh' = Append(trackCh, attempt)
  /\ schedEnqueued' = schedEnqueued \cup {attempt}
  /\ spc' = "top"
  /\ lastInfo' = [Genre |-> TrackInfoGenre, captionFor |-> captionFor, startedIn |-> genStart]
  /\ GenerateReturns
  /\ UNCHANGED <<currentGenre, autoDJ, dwellExpired, lastCaption, cfgTrackDuration, reqDuration, genreOverrideCh, attempt,
                 failedAttempts, lastSetGenre, tdRequested, sharedVars, bVars, bHist, pExceptTrackCh,
                 pHist, fnVars>>

InitP == InitShared /\ InitFn /\ InitBroadcaster /\ InitScheduler /\ \E cf \in CrossfadeChoices : InitPipeline(cf)

NextP ==
  \/ Enqueue
  \/ Skip
  \/ Tick
  \/ FrameRecv
  \/ DecoderRecvFail
  \/ \E len \in SampleLens : DecoderRecvOk(len)
  \/ DecoderSend
  \/ PlayWaitRecv
  \/ PlayEntry
  \/ SendTickSkip
  \/ SendTickTick
  \/ SendFrameOk
  \/ PlayPeekNext
  \/ PlayPeekNone

\* The pipeline while the cancel token has not fired
SpecPipeline == InitP /\ [][NextP]_vars

\* The steps the fired cancel token enables
NextPStop ==
  \/ Cancel
  \/ DecoderCancel
  \/ PlayWaitCancel
  \/ PlayWaitClosed
  \/ SendTickCancel
  \/ SendCancel

SpecPipelineStop == InitP /\ [][NextP \/ NextPStop]_vars

\* The steps of the goroutine that executes Pipeline.Run
PRunStep ==
  \/ PlayWaitRecv
  \/ PlayWaitCancel
  \/ PlayWaitClosed
  \/ PlayEntry
  \/ SendTickCancel
  \/ SendTickSkip
  \/ SendTickTick
  \/ SendFrameOk
  \/ SendCancel
  \/ PlayPeekNext
  \/ PlayPeekNone

\* The cases <-ctx.Done() of Run's select and of the two selects of sendFrame
PRunCancelStep == PlayWaitCancel \/ SendTickCancel \/ SendCancel

\* The pipeline whose Run goroutine keeps being scheduled and whose selects
\* pick at random among their ready cases
SpecPipelineStopLive ==
  SpecPipelineStop /\ WF_vars(PRunStep) /\ SF_vars(PRunCancelStep)

InitB == InitShared /\ InitFn /\ InitBroadcaster /\ InitScheduler /\ InitPipeline(0)

NextB ==
  \/ Subscribe
  \/ \E l \in ListenerIds : UnsubscribeDelete(l)
  \/ \E l \in ListenerIds : UnsubscribeClose(l)
  \/ BRunRecv
  \/ \E l \in ListenerIds : BRunOffer(l)
  \/ BRunCancel
  \/ BRunSourceClosed
  \/ \E l \in ListenerIds : ListenerRead(l)
  \/ SourceSend
  \/ SourceClose
  \/ Cancel

SpecBroadcaster == InitB /\ [][NextB]_vars

\* The steps of the goroutine that executes Broadcaster.Run
BRunStep ==
  \/ BRunRecv
  \/ \E l \in ListenerIds : BRunOffer(l)
  \/ BRunCancel
  \/ BRunSourceClosed

\* The broadcaster whose Run goroutine keeps being scheduled, and whose select
\* picks among its ready cases at random, so that a case ready again and
\* again is taken in the end.
SpecBroadcasterLive == SpecBroadcaster /\ WF_vars(BRunStep) /\ SF_vars(BRunCancel)

(***************************************************************************)
(* Transport subscriber loops                                              *)
(***************************************************************************)
\* The handler that subscribed listener l; the two handlers take turns
Transport(l) == IF l % 2 = 1 THEN "http" ELSE "webrtc"

\* ServeHTTP's feeder goroutine: case frame, ok := <-listener.C, stdin.Write
HttpFeed(l) ==
  /\ Transport(l) = "http"
  /\ ListenerRead(l)

\* ServeHTTP returns: the read of ffmpeg's output or the write of the response
\* failed (the client went away, or the request context was cancelled, which
\* server.Close brings about after the top-level cancel and which kills
\* ffmpeg); the deferred Unsubscribe starts
HttpExit(l) ==
  /\ Transport(l) = "http"
  /\ UnsubscribeDelete(l)

\* streamToPeer: case frame, ok := <-listener.C; Encode, WriteSample without error
\* (or Encode's error and continue)
WebRtcRead(l) ==
  /\ Transport(l) = "webrtc"
  /\ lunsub[l] = "no"
  /\ ListenerRead(l)

\* streamToPeer returns: case <-listener.done, or a frame was taken and
\* WriteSample failed on it; the deferred Unsubscribe starts.  listener.C is
\* closed by nobody, so ok is always true.
WebRtcExit(l) ==
  /\ Transport(l) = "webrtc"
  /\ bpc # "fanout"
  /\ l \in created
  /\ lunsub[l] = "no"
  /\ ldone[l] = 1 \/ lq[l] # <<>>
  /\ lq' = [lq EXCEPT ![l] = IF ldone[l] = 1 THEN @ ELSE Tail(@)]
  /\ lrecv' = [lrecv EXCEPT ![l] = IF ldone[l] = 1 THEN @ ELSE Append(@, Head(lq[l]))]
  /\ listeners' = Delete(listeners, l)
  /\ lunsub' = [lunsub EXCEPT ![l] = "deleted"]
  /\ UNCHANGED <<sharedVars, created, ldone, bpc, bframe, btodo, bseq, ldrop, lsubAt,
                 nonBroadcaster>>

NextT ==
  \/ Subscribe
  \/ \E l \in ListenerIds : HttpFeed(l)
  \/ \E l \in ListenerIds : HttpExit(l)
  \/ \E l \in ListenerIds : WebRtcRead(l)
  \/ \E l \in ListenerIds : WebRtcExit(l)
  \/ \E l \in ListenerIds : UnsubscribeClose(l)
  \/ BRunRecv
  \/ \E l \in ListenerIds : BRunOffer(l)
  \/ BRunCancel
  \/ BRunSourceClosed
  \/ SourceSend
  \/ SourceClose
  \/ Cancel

\* The subscriber loops whose goroutines keep being scheduled: after the
\* top-level cancel an HTTP handler returns, a started Unsubscribe finishes,
\* and streamToPeer takes what its select offers.
SpecTransport ==
  /\ InitB
  /\ [][NextT]_vars
  /\ \A l \in ListenerIds :
       /\ WF_vars(cancelled /\ HttpExit(l))
       /\ WF_vars(UnsubscribeClose(l))
       /\ WF_vars(WebRtcRead(l) \/ WebRtcExit(l))

InitS == InitShared /\ InitFn /\ InitBroadcaster /\ InitScheduler /\ InitPipeline(0)

NextS ==
  \/ \E g \in OverrideGenres : SetGenre(g)
  \/ \E b \in BOOLEAN : SetAutoDJ(b)
  \/ DwellElapse
  \/ SRunStart
  \/ SRunCancelled
  \/ SRunContinue
  \/ SRunOverride
  \/ SRunDwell
  \/ STransition
  \/ SRunBufferLow
  \/ SRunBufferFull
  \/ SSleepDone
  \/ SGenerateOk
  \/ SGenerateErr
  \/ SPollCancelled
  \/ SPollContinue
  \/ SPollRetry
  \/ SPollFailed
  \/ SPollNoPath
  \/ SPollSuccess
  \/ SEnqueue
  \/ DecoderRecvFail
  \/ DecoderRecvOk(2 * FrameSamples)
  \/ DecoderSend
  \/ Cancel

\* The scheduler with the decoder stage taking the tracks it enqueues (the
\* scheduler reads the pipeline through len(trackCh) only, so one track
\* length is enough here)
SpecScheduler == InitS /\ [][NextS]_vars

\* The scheduler started with any configured genre
InitSAnyGenre ==
  /\ InitShared /\ InitFn /\ InitBroadcaster /\ InitPipeline(0)
  /\ \E g \in StartingGenres : InitSchedulerWith(g)

SpecSchedulerAnyGenre == InitSAnyGenre /\ [][NextS]_vars

\* A step of the goroutine that runs Scheduler.Run
RunStep ==
  \/ SRunStart
  \/ SRunCancelled
  \/ SRunContinue
  \/ SRunOverride
  \/ SRunDwell
  \/ STransition
  \/ SRunBufferLow
  \/ SRunBufferFull
  \/ SSleepDone
  \/ SGenerateOk
  \/ SGenerateErr
  \/ SPollCancelled
  \/ SPollContinue
  \/ SPollRetry
  \/ SPollFailed
  \/ SPollNoPath
  \/ SPollSuccess
  \/ SEnqueue

\* The scheduler whose goroutine keeps running: a sleep ends, a request gets
\* its answer.  Which answer a poll gets is left to the service.
SpecSchedulerLive == SpecScheduler /\ WF_vars(RunStep)

\* The scheduler with its configured track duration and the /api/config
\* requests that change it
InitConfig ==
  /\ InitShared /\ InitFn /\ InitBroadcaster /\ InitPipeline(0)
  /\ \E d \in ConfiguredDurations : InitSchedulerCfg(StartingGenre, d)

NextConfig ==
  \/ \E v \in TrackDurationInputs : ApiConfigTrackDuration(v)
  \/ RunStep
  \/ DwellElapse
  \/ Cancel

SpecConfig == InitConfig /\ [][NextConfig]_vars

(***************************************************************************)
(* Functions of the generator client                                       *)
(***************************************************************************)
\* c.outputDir (ACESTEP_OUTPUT_DIR) and the relative path of a reference
OutputDir == "/acestep-outputs"
RelPath == "outputs/t1/0.mp3"

\* The values of items[0].File looked at: empty, one url.Parse rejects, one
\* without a path parameter, one with an empty one, one with a path
FileRefs == {"", "%zz", "/v1/audio", "/v1/audio?path=", "/v1/audio?path=outputs/t1/0.mp3"}

\* url.Parse(fileRef) returns no error
UrlParses(ref) == ref # "%zz"

\* u.Query().Get("path")
QueryPath(ref) == IF ref = "/v1/audio?path=outputs/t1/0.mp3" THEN RelPath ELSE ""

\* filepath.Join(c.outputDir, relPath)
JoinPath(dir, rel) == <<dir, rel>>

\* What downloadAudio can meet: success, a failed Get, a failed CreateTemp, a
\* failed Copy
DownloadResults == {"ok", "download audio", "create temp file", "write audio"}

\* The arguments of extractAudioPath and the world it runs in: whether the
\* result JSON parses, how many items it holds, the first item's File,
\* whether os.Stat of the joined path succeeds, how the download goes
ExtractInputs ==
  [json : {"bad", "ok"}, items : 0..MaxResultItems, file : FileRefs,
   stat : BOOLEAN, download : DownloadResults]

\* downloadAudio
DownloadAudio(in) ==
  IF in.download = "ok"
  THEN [kind |-> "path", path |-> <<"tmp", "drift-*.mp3">>, downloaded |-> TRUE]
  ELSE [kind |-> "error", err |-> in.download, downloaded |-> TRUE]

\* _, err := os.Stat(localPath); err == nil
FileAlwaysExists(in) == TRUE
FileExists(in) == in.stat

\* extractAudioPath
ExtractAudioPath(in) ==
  IF in.json = "bad"
  THEN [kind |-> "error", err |-> "parse result items", downloaded |-> FALSE]
  ELSE IF in.items = 0 \/ in.file = ""
  THEN [kind |-> "error", err |-> "no audio file in result", downloaded |-> FALSE]
  ELSE IF UrlParses(in.file) /\ QueryPath(in.file) # "" /\ FileExists(in)
  THEN [kind |-> "path", path |-> JoinPath(OutputDir, QueryPath(in.file)),
        downloaded |-> FALSE]
  ELSE DownloadAudio(in)

InitExtract ==
  /\ InitShared /\ InitBroadcaster /\ InitScheduler /\ InitPipeline(0)
  /\ fnIn \in ExtractInputs
  /\ fnOut = NoValue

\* PollUntilDone, case 1: return c.extractAudioPath(task.Result)
CallExtract ==
  /\ fnOut = NoValue
  /\ fnOut' = ExtractAudioPath(fnIn)
  /\ UNCHANGED <<sharedVars, bVars, bHist, pVars, pHist, sVars, sHist, fnIn>>

SpecExtract == InitExtract /\ [][CallExtract]_vars

(***************************************************************************)
(* CrossfadeFrames                                                         *)
(***************************************************************************)
MinInt16 == -32768
MaxInt16 == 32767

\* Samples the frames are built from
MixSamples == {MinInt16, -1000, 0, 1, MaxInt16}
MixFrames == [1..MixLen -> MixSamples]

\* progress = k / ProgressSteps, from below 0 to above 1
ProgressNums == (-1)..(ProgressSteps + 1)

\* Smoothstep(k / d) as a fraction of d^3: 0 for t <= 0, 1 for t >= 1, else
\* t * t * (3 - 2t)
SmoothstepNum(k, d) ==
  IF k <= 0 THEN 0
  ELSE IF k >= d THEN d * d * d
  ELSE k * k * (3 * d - 2 * k)

\* int16(mixed): the conversion drops the fraction (towards zero)
TruncDiv(n, d) == IF n >= 0 THEN n \div d ELSE -((-n) \div d)

\* if mixed > 32767 { mixed = 32767 } else if mixed < -32768 { mixed = -32768 },
\* on mixed = n / d
ClipNum(n, d) ==
  IF n > MaxInt16 * d THEN MaxInt16 * d
  ELSE IF n < MinInt16 * d THEN MinInt16 * d
  ELSE n

\* The weight of the outgoing sample, as a fraction of den: 1 - gain
OutgoingGainFull(g, den) == den
OutgoingGain(g, den) == den - g

\* One sample of CrossfadeFrames: out + in, clipped, converted
MixSample(o, i, k) ==
  LET den == ProgressSteps * ProgressSteps * ProgressSteps
      g == SmoothstepNum(k, ProgressSteps)
  IN TruncDiv(ClipNum(o * OutgoingGain(g, den) + i * g, den), den)

\* CrossfadeFrames(outgoing, incoming, progress): one sample per sample of outgoing
CrossfadeFrames(outgoing, incoming, k) ==
  [j \in 1..Len(outgoing) |-> MixSample(outgoing[j], incoming[j], k)]

InitCrossfade ==
  /\ InitShared /\ InitBroadcaster /\ InitScheduler /\ InitPipeline(0)
  /\ fnIn \in [outgoing : MixFrames, incoming : MixFrames, k : ProgressNums]
  /\ fnOut = NoValue

CallCrossfade ==
  /\ fnOut = NoValue
  /\ fnOut' = [frame |-> CrossfadeFrames(fnIn.outgoing, fnIn.incoming, fnIn.k)]
  /\ UNCHANGED <<sharedVars, bVars, bHist, pVars, pHist, sVars, sHist, fnIn>>

SpecCrossfade == InitCrossfade /\ [][CallCrossfade]_vars

(***************************************************************************)
(* TrackName                                                               *)
(***************************************************************************)
\* A uint64 is kept as four 16-bit limbs, lowest first; a string to be
\* hashed as the sequence of its bytes.
LimbBase == 65536

\* var h uint64 = 14695981039346656037 (0xcbf29ce484222325)
FnvOffset == <<8997, 33826, 40164, 52210>>

\* 1099511628211 = 2^40 + 435
FnvPrimeLow == 435

\* Carries of a limb-wise sum or product; what leaves the top limb is lost,
\* as in uint64 arithmetic
Carry(x) ==
  LET l2 == x[2] + x[1] \div LimbBase
      l3 == x[3] + l2 \div LimbBase
      l4 == x[4] + l3 \div LimbBase
  IN <<x[1] % LimbBase, l2 % LimbBase, l3 % LimbBase, l4 % LimbBase>>

\* a ^ b for two bytes
RECURSIVE XorBits(_, _, _)
XorBits(a, b, n) ==
  IF n = 0 THEN 0
  ELSE ((a + b) % 2) + 2 * XorBits(a \div 2, b \div 2, n - 1)

\* h ^= uint64(s[i])
XorByte(h, c) ==
  [h EXCEPT ![1] = (h[1] \div 256) * 256 + XorBits(h[1] % 256, c, 8)]

\* h *= 1099511628211: h * 435 + h * 2^40, modulo 2^64
MulPrime(h) ==
  Carry(<<h[1] * FnvPrimeLow,
          h[2] * FnvPrimeLow,
          h[3] * FnvPrimeLow + h[1] * 256,
          h[4] * FnvPrimeLow + h[2] * 256>>)

\* trackHash over the bytes of the whole string
RECURSIVE trackHash(_)
trackHash(id) ==
  IF id = <<>> THEN FnvOffset
  ELSE MulPrime(XorByte(trackHash(SubSeq(id, 1, Len(id) - 1)), id[Len(id)]))

\* h % n for a small n
ModLimbs(h, n) ==
  LET r4 == h[4] % n
      r3 == (r4 * LimbBase + h[3]) % n
      r2 == (r3 * LimbBase + h[2]) % n
  IN (r2 * LimbBase + h[1]) % n

\* genreWords, for two of its fourteen genres; ok is false for the others
WordGenres == {"jazz", "rock"}
Adjectives(genre) ==
  CASE genre = "jazz" -> <<"smoky", "midnight", "velvet", "golden", "swinging", "dim",
                           "warm", "slow", "dark", "cool", "muted", "rich">>
    [] genre = "rock" -> <<"thunderous", "blazing", "driven", "roaring", "massive", "heavy",
                           "fierce", "wild", "burning", "raw", "crushing", "loud">>
    [] OTHER -> <<>>
Nouns(genre) ==
  CASE genre = "jazz" -> <<"keys", "brass", "lounge", "walk", "quarter", "glass",
                           "satin", "room", "hour", "standard", "corner", "blue">>
    [] genre = "rock" -> <<"anthem", "riff", "volt", "storm", "iron", "fuel",
                           "hammer", "howl", "forge", "strike", "engine", "thunder">>
    [] OTHER -> <<>>

\* The index of the noun: (h / len(adjectives)) % len(nouns)
NounIndexPlain(h, n, m) == ModLimbs(h, m)
NounIndex(h, n, m) == ModLimbs(h, n * m) \div n

\* TrackName(genre, trackID)
TrackName(genre, id) ==
  IF genre = "" \/ id = <<>> THEN ""
  ELSE IF genre \notin WordGenres \/ Len(Adjectives(genre)) = 0 THEN genre \o " session"
  ELSE LET h == trackHash(id)
           n == Len(Adjectives(genre))
           m == Len(Nouns(genre))
       IN Adjectives(genre)[ModLimbs(h, n) + 1] \o " " \o Nouns(genre)[NounIndex(h, n, m) + 1]

\* The bytes of the ids looked at: 'a', 'b', '-', '0'
IdBytes == {97, 98, 45, 48}
RECURSIVE IdsOfLen(_)
IdsOfLen(n) ==
  IF n = 0 THEN {<<>>}
  ELSE {Append(id, c) : id \in IdsOfLen(n - 1), c \in IdBytes}
TrackIdStrings == UNION {IdsOfLen(n) : n \in 0..MaxIdLen}

\* The genres looked at: none, one without words, two with
NameGenres == {"", "polka"} \cup WordGenres

InitTrackName ==
  /\ InitShared /\ InitBroadcaster /\ InitScheduler /\ InitPipeline(0)
  /\ fnIn \in [genre : NameGenres, id : TrackIdStrings]
  /\ fnOut = NoValue

\* generateTrack: trackName = TrackName(genre, taskID)
CallTrackName ==
  /\ fnOut = NoValue
  /\ fnOut' = [name |-> TrackName(fnIn.genre, fnIn.id)]
  /\ UNCHANGED <<sharedVars, bVars, bHist, pVars, pHist, sVars, sHist, fnIn>>

SpecTrackName == InitTrackName /\ [][CallTrackName]_vars

(***************************************************************************)
(* Automatic transitions over the genre graph                              *)
(***************************************************************************)
\* The scheduler is started in a genre of the graph and does nothing but
\* transitions: fnIn is the genre it started in, fnOut the current one.
InitWalk ==
  /\ InitShared /\ InitBroadcaster /\ InitScheduler /\ InitPipeline(0)
  /\ fnIn \in [start : GenreNames]
  /\ fnOut = [genre |-> fnIn.start]

\* transitionGenre: next := g.Adjacent[rand.IntN(len(g.Adjacent))]
WalkTransition ==
  /\ \E g \in TransitionTargets(fnOut.genre) : fnOut' = [genre |-> g]
  /\ UNCHANGED <<sharedVars, bVars, bHist, pVars, pHist, sVars, sHist, fnIn>>

SpecWalk == InitWalk /\ [][WalkTransition]_vars

(***************************************************************************)
(* The frame counts of playTrack                                           *)
(***************************************************************************)
\* The crossfade durations looked at, in milliseconds: RADIO_CROSSFADE_DURATION
\* gives whole seconds, NewPipeline takes any time.Duration
CrossfadeInputs == {0, 500, 1000, 1500, 8000, 30000}

\* The lengths of dt.samples looked at: whole frames and 7 samples more
SampleLenInputs ==
  {n * FrameSamples + r : n \in {0, 1, 2, 3, 5, 100, 101, 150, 151, 1000, 3001}, r \in {0, 7}}

InitFrameCounts ==
  /\ InitShared /\ InitBroadcaster /\ InitScheduler
  /\ \E cf \in CrossfadeInputs : InitPipeline(cf)
  /\ fnIn \in [len : SampleLenInputs]
  /\ fnOut = NoValue

\* playTrack: totalFrames, cfFrames and cfStart of the track it is given
CallFrameCounts ==
  /\ fnOut = NoValue
  /\ fnOut' = [totalFrames |-> TotalFrames(fnIn.len),
               cfFrames |-> CfFrames(fnIn.len),
               cfStart |-> CfStart(fnIn.len)]
  /\ UNCHANGED <<sharedVars, bVars, bHist, pVars, pHist, sVars, sHist, fnIn>>

SpecFrameCounts == InitFrameCounts /\ [][CallFrameCounts]_vars

(***************************************************************************)
(* resetDwell                                                              *)
(***************************************************************************)
\* cfg.DwellMin and cfg.DwellMax (RADIO_DWELL_MIN, RADIO_DWELL_MAX: any
\* integers) and the second time.Now() falls in
DwellInputs == [min : -1..MaxDwell, max : -1..MaxDwell, now : 0..1]

\* rand.IntN(spread): an integer of [0, spread)
DwellDrawsInclusive(spread) == 0..spread
DwellDraws(spread) == 0..(spread - 1)

InitResetDwell ==
  /\ InitShared /\ InitBroadcaster /\ InitScheduler /\ InitPipeline(0)
  /\ fnIn \in DwellInputs
  /\ fnOut = NoValue

\* resetDwell; fnOut.dwellEnd is s.dwellEnd in seconds
ResetDwell ==
  /\ fnOut = NoValue
  /\ LET spread == IF fnIn.max - fnIn.min <= 0 THEN 1 ELSE fnIn.max - fnIn.min
     IN \E r \in DwellDraws(spread) :
          fnOut' = [dwellEnd |-> fnIn.now + (fnIn.min + r)]
  /\ UNCHANGED <<sharedVars, bVars, bHist, pVars, pHist, sVars, sHist, fnIn>>

SpecResetDwell == InitResetDwell /\ [][ResetDwell]_vars

(***************************************************************************)
(* The slices of playTrack                                                 *)
(***************************************************************************)
\* A call of playTrack whose sendFrame calls all return true: the track's
\* samples, the samples of the track found in decodedCh at cfStart (-1: none
\* was there) and startFrame
PlayInputs ==
  LET lens == {n * FrameSamples + r : n \in {0, 1, 2, 3, 5, 900}, r \in {0, 7}}
  IN [len : lens, nextLen : lens \cup {-1}, start : {0, 1, 2, 3, 400, 901}]

\* samples[i*FrameSamples:(i+1)*FrameSamples] of a buffer of len samples
FrameSlice(buf, len, i) ==
  [of |-> buf, lo |-> i * FrameSamples, hi |-> (i + 1) * FrameSamples, len |-> len]

\* The iterations the crossfade loop makes before its condition or its break
\* ends it
CrossfadeIterations(t, nx) ==
  {i \in 0..(CfFrames(t.len) - 1) : \A j \in 0..i : CrossfadeContinues(t, nx, j)}

\* The slices of the three loops
PlaySlices(in) ==
  LET t == [id |-> 1, len |-> in.len]
      nx == [id |-> 2, len |-> in.nextLen]
      pre == {FrameSlice("samples", in.len, i) : i \in in.start..(CfStart(in.len) - 1)}
      xf == UNION {{FrameSlice("samples", in.len, CfStart(in.len) + i),
                    FrameSlice("next.samples", in.nextLen, i)} :
                   i \in CrossfadeIterations(t, nx)}
      tail == {FrameSlice("samples", in.len, i) :
                 i \in CfStart(in.len)..(TotalFrames(in.len) - 1)}
  IN pre \cup (IF in.nextLen >= 0 THEN xf ELSE tail)

InitSlices ==
  /\ InitShared /\ InitBroadcaster /\ InitScheduler
  /\ \E cf \in CrossfadeInputs : InitPipeline(cf)
  /\ fnIn \in PlayInputs
  /\ fnOut = NoValue

\* playTrack(ctx, ticker, decodedCh, dt, startFrame)
CallPlayTrack ==
  /\ fnOut = NoValue
  /\ fnOut' = [slices |-> PlaySlices(fnIn),
               start |-> IF fnIn.nextLen >= 0 THEN CfFrames(fnIn.len) ELSE 0]
  /\ UNCHANGED <<sharedVars, bVars, bHist, pVars, pHist, sVars, sHist, fnIn>>

SpecSlices == InitSlices /\ [][CallPlayTrack]_vars

(***************************************************************************)
(* Claims about the broadcaster (SpecBroadcaster)                          *)
(***************************************************************************)
\* The frames a listener has been handed: those it dequeued, then those queued
Delivered(l) == lrecv[l] \o lq[l]

Occurrences(s, f) == Cardinality({i \in 1..Len(s) : s[i] = f})

OfferedTo(l) ==
  {bseq[i] : i \in (lsubAt[l] + 1)..(IF bpc = "fanout" /\ l \in btodo
                                      THEN Len(bseq) - 1 ELSE Len(bseq))}

C2_PassComplete ==
  \A l \in listeners : \A f \in OfferedTo(l) :
    \/ Occurrences(Delivered(l), f) = 1 /\ f \notin ldrop[l]
    \/ Occurrences(Delivered(l), f) = 0 /\ f \in ldrop[l]

C2_NeverBlocks ==
  bpc = "fanout" => \A l \in btodo : ENABLED BRunOffer(l)

C2_Step ==
  (bpc = "fanout" /\ btodo' # btodo) =>
    \E l \in btodo :
      /\ btodo' = btodo \ {l}
      /\ lq'[l] = IF Len(lq[l]) < ListenerCap THEN Append(lq[l], bframe) ELSE lq[l]
      /\ (Len(lq[l]) = ListenerCap) = (bframe \in ldrop'[l])
      /\ \A m \in ListenerIds \ {l} : lq'[m] = lq[m] /\ ldrop'[m] = ldrop[m]

\* C2: for each frame Run takes, every listener in the set whose queue is not
\* full gets exactly one copy appended, a listener whose queue is full gets
\* nothing, no other queue is touched, and the offer to a listener is enabled
\* whatever the state of its queue (Run never waits for a listener).
C2_FanOut == []C2_PassComplete /\ []C2_NeverBlocks /\ [][C2_Step]_vars

\* C2 witness: a pass is over in which a full listener that never read was
\* refused the frame and another listener got it
C2_Witness ==
  /\ bpc = "select"
  /\ \E l1, l2 \in listeners :
       /\ lrecv[l1] = <<>>
       /\ bframe \in ldrop[l1]
       /\ bframe \in Range(Delivered(l2))

\* C3: a listener's queue never holds more than its capacity
C3_QueueBounded == \A l \in ListenerIds : Len(lq[l]) <= ListenerCap

\* C3 witness: a listener that never read has a full queue and the source went on
C3_Witness ==
  \E l \in created :
    /\ lrecv[l] = <<>>
    /\ Len(lq[l]) = ListenerCap
    /\ ldrop[l] # {}


(***************************************************************************)
(* Claims about the pipeline (SpecPipeline)                                *)
(***************************************************************************)
Last(q) == q[Len(q)]

\* The tracks passed to Enqueue so far
Enqueued == 1..(nextTrack - 1)

\* The tracks waiting in a queue or held by the decoder or the playback loop
InFlight ==
  (Range(trackCh) \cup {dheld.id} \cup {decodedCh[i].id : i \in 1..Len(decodedCh)}
     \cup {dt.id, next.id}) \ {0}

\* The tracks that are nowhere any more and never became the current track
LostTracks == Enqueued \ (decodeFailed \cup InFlight \cup Range(playedSeq))

\* C4: every frame sent on the output channel (and every frame handed to
\* sendFrame) has exactly 1920 samples.
C4_FrameLength ==
  /\ \A i \in 1..Len(frameCh) : frameCh[i].n = FrameSamples
  /\ ppc \in SendStates => CurrentFrame.n = FrameSamples

\* C4 witness: a crossfaded frame of a track whose length is not a multiple of
\* the frame length is in the channel, after a verbatim frame of that track
C4_Witness ==
  /\ ppc = "xf_tick"
  /\ pi > 0
  /\ dt.len % FrameSamples # 0
  /\ \E i \in 1..Len(frameCh) : frameCh[i].in = next.id /\ frameCh[i].out = dt.id

\* C5: absent cancellation no track is discarded: a track passed to Enqueue
\* whose decode succeeded is waiting, held, or has become the current track.
C5_NoTrackLost == ~cancelled => LostTracks = {}

\* C6: after a decode error every other track is still on its way to playback
\* or has been played.
C6_OnlyFailedTrackDropped ==
  (~cancelled /\ decodeFailed # {}) => LostTracks = {}

\* C8: at most one skip is pending, and the skip the playback loop observes
\* takes at most one track out of playback.
C8_OneSkipOneTrack ==
  /\ skipCh <= SkipChCap
  /\ Cardinality(lastSkipAbandoned) <= 1

\* C9: once a skip was observed during a track no frame with samples of that
\* track is sent any more, and the track played after it starts at frame 0.
C9_NextStartsAtZero ==
  (ppc = "entry" /\ playedSeq # <<>> /\ Last(playedSeq) \in skippedTracks)
    => startFrame = 0

C9_NoFrameOfSkipped ==
  Len(frameCh') > Len(frameCh) =>
    /\ Last(frameCh').out \notin skippedTracks
    /\ Last(frameCh').in \notin skippedTracks

C9_SkipCutsTrack == []C9_NextStartsAtZero /\ [][C9_NoFrameOfSkipped]_vars

\* C9 witness: the track before the current one was skipped, and frame 0 of
\* the current one has been sent
C9_Witness ==
  /\ Len(playedSeq) >= 2
  /\ playedSeq[Len(playedSeq) - 1] \in skippedTracks
  /\ \E i \in 1..Len(frameCh) :
       frameCh[i].out = Last(playedSeq) /\ frameCh[i].oi = 0 /\ frameCh[i].in = 0

\* C10: a Skip issued while no track is playing has no effect on the track
\* that starts afterwards, unless Skip is called again after it has started.
C10_IdleSkipIsNoOp == ~idleSkipKilled


(***************************************************************************)
(* Claims about the scheduler (SpecScheduler)                              *)
(***************************************************************************)
\* C7: a failed generation attempt (Generate returns an error, PollUntilDone
\* returns an error) enqueues no track, and Run does not return because of
\* it: the step in which the attempt fails leaves trackCh alone and takes Run
\* back to the head of its loop (after the 5 s sleep for a Generate error),
\* and Run has returned only if the cancel token has fired.
C7_NothingEnqueued ==
  /\ failedAttempts \cap schedEnqueued = {}
  /\ failedAttempts \cap Range(trackCh) = {}

C7_RunGoesOn ==
  /\ spc = "returned" => cancelled
  /\ (spc = "gensleep" /\ ~cancelled) => ENABLED SSleepDone
  /\ (spc = "top" /\ ~cancelled) => ENABLED SRunContinue

C7_FailureStep ==
  failedAttempts' # failedAttempts =>
    /\ spc' \in {"top", "gensleep"}
    /\ trackCh' = trackCh
    /\ schedEnqueued' = schedEnqueued

C7_FailedAttemptDropped ==
  []C7_NothingEnqueued /\ []C7_RunGoesOn /\ [][C7_FailureStep]_vars

\* C7 witness: two attempts have failed, and an attempt made after them has
\* enqueued its track, the cancel token not having fired
C7_Witness ==
  /\ ~cancelled
  /\ Cardinality(failedAttempts) >= 2
  /\ \E b \in schedEnqueued : \A a \in failedAttempts : a < b


\* C11: when SetGenre was called several times before Run drained the override
\* slot, the genre Run applies is the one passed to the last of these calls.
C11_DrainStep ==
  (spc = "override" /\ genreOverrideCh # <<>> /\ genreOverrideCh' = <<>>)
    => currentGenre' = lastSetGenre

C11_NewestOverrideWins == [][C11_DrainStep]_vars


\* C12: an override accepted into the slot is eventually applied by Run unless
\* the cancel token fires; the step that applies it sets currentGenre to the
\* override and resets the dwell timer at once; Run takes at most one override
\* per iteration of its loop.
\* Run is inside PollUntilDone
InPoll == spc \in {"poll", "pollreq", "pollsleep"}

\* The model's bound on generateTrack calls stops Run here
AttemptsExhausted ==
  spc = "buffer" /\ Len(trackCh) < BufferAhead /\ attempt = MaxAttempts

C12_Applied == genreOverrideCh = <<>> \/ cancelled \/ AttemptsExhausted

C12_ApplyStep ==
  /\ genreOverrideCh # <<>> /\ genreOverrideCh' # genreOverrideCh
       => /\ spc = "override" /\ spc' = "dwell"
          /\ currentGenre' = Head(genreOverrideCh)
          /\ dwellExpired' = FALSE
          /\ genreOverrideCh' = Tail(genreOverrideCh)
  /\ (spc' = "override" /\ spc # "override") => spc = "top"

TransitionOutsideGraph == spc = "transition" /\ currentGenre \notin GenreNames

\* C13: transitionGenre leaves in currentGenre a neighbour of the previous
\* genre when that genre is in the graph and has neighbours, leaves it
\* unchanged otherwise, and resets the dwell timer in both cases.
C13_TransitionStep ==
  (spc = "transition" /\ spc' # "transition") =>
    /\ IF currentGenre \in GenreNames /\ Adjacent(currentGenre) # {}
       THEN currentGenre' \in Adjacent(currentGenre) /\ currentGenre' # currentGenre
       ELSE currentGenre' = currentGenre
    /\ dwellExpired' = FALSE

C13_TransitionsFollowEdges == [][C13_TransitionStep]_vars

\* C13 witness: Run is past transitionGenre with the genre two edges away
\* from the starting genre ("ambient" is not an override genre, so only
\* transitions lead there) and the dwell timer reset
C13_Witness == spc = "buffer" /\ currentGenre = "ambient" /\ ~dwellExpired


\* C14: SetAutoDJ(true) sets autoDJ and resets the dwell timer; SetAutoDJ(false)
\* clears autoDJ and leaves the dwell timer as it is; neither changes the
\* current genre, the last caption or the track duration.
C14_SetAutoDJStep ==
  \A enabled \in BOOLEAN :
    SetAutoDJ(enabled) =>
      /\ autoDJ' = enabled
      /\ enabled => dwellExpired' = FALSE
      /\ ~enabled => dwellExpired' = dwellExpired
      /\ UNCHANGED <<currentGenre, lastCaption, cfgTrackDuration>>

C14_SetAutoDJ == [][C14_SetAutoDJStep]_vars

\* C14 witness: auto-DJ is off with the dwell timer expired (SetAutoDJ(false)
\* has left an expired timer alone), a caption has been made and the genre
\* has changed since the start
C14_Witness ==
  /\ ~autoDJ
  /\ dwellExpired
  /\ lastCaption > 0
  /\ currentGenre # StartingGenre


\* C15: after any sequence of set_track_duration requests with any integer
\* values, the track duration of the scheduler, and the duration each of its
\* generation requests carries, is within [15, 300]: a request with a value
\* outside the range leaves the duration as it is, an accepted one sets it to
\* its value.
TrackDurationRange == MinTrackDuration..MaxTrackDuration

C15_InRange ==
  /\ cfgTrackDuration \in TrackDurationRange
  /\ reqDuration # 0 => reqDuration \in TrackDurationRange

C15_RequestStep ==
  \A v \in TrackDurationInputs :
    ApiConfigTrackDuration(v) =>
      cfgTrackDuration' = IF v \in TrackDurationRange THEN v ELSE cfgTrackDuration

C16_Snapshot ==
  /\ trackPosition <= trackDuration
  /\ ppc \in TickStates \cup SendStates \cup {"peek"} =>
       /\ curTrack = dt.id
       /\ trackDuration = TotalFrames(dt.len) * FrameDurationMs

C16_StatusStep ==
  /\ curTrack' = curTrack => trackPosition' >= trackPosition /\ trackDuration' = trackDuration
  /\ curTrack' # curTrack =>
       /\ ppc = "entry"
       /\ curTrack' = dt.id
       /\ trackDuration' = TotalFrames(dt.len) * FrameDurationMs
       /\ trackPosition' = 0

C16_StatusConsistent == []C16_Snapshot /\ [][C16_StatusStep]_vars

\* C16 witness: the current track was carried over from a crossfade and its
\* position has advanced
C16_Witness ==
  /\ ppc \in TickStates
  /\ startFrame > 0
  /\ curTrack = dt.id
  /\ trackPosition > 0


\* C17: Unsubscribe first removes the listener from the listener set and
\* then raises its cancel signal, and the signal of a listener is raised
\* exactly once.
C17_Signal ==
  \A l \in ListenerIds :
    /\ ldone[l] <= 1
    /\ (lunsub[l] = "closed") <=> (ldone[l] = 1)
    /\ ldone[l] = 1 => l \notin listeners
    /\ l \in listeners => l \in created /\ lunsub[l] = "no"

C17_UnsubscribeStep ==
  \A l \in ListenerIds :
    /\ ldone'[l] # ldone[l] =>
         /\ lunsub[l] = "deleted"
         /\ l \notin listeners
         /\ ldone[l] = 0
         /\ ldone'[l] = 1
    /\ (lunsub[l] = "no" /\ lunsub'[l] # "no") =>
         /\ l \notin listeners'
         /\ ldone'[l] = 0

C18_NothingEarlier ==
  \A l \in ListenerIds : \A i \in 1..Len(bseq) :
    bseq[i] \in Range(Delivered(l)) \cup ldrop[l] => i > lsubAt[l]

QueueAfterRead(q) == IF q = <<>> THEN {q} ELSE {q, Tail(q)}

C18_QueueStep ==
  \A l \in ListenerIds :
    /\ l \notin created => lq'[l] = <<>>
    /\ lunsub[l] # "no" => lq'[l] \in QueueAfterRead(lq[l])
    /\ lq'[l] \notin QueueAfterRead(lq[l]) =>
         /\ l \in listeners
         /\ lq'[l] = Append(lq[l], bframe)
         /\ bframe = bseq[Len(bseq)]

C18_OnlyWhileSubscribed == []C18_NothingEarlier /\ [][C18_QueueStep]_vars

\* C18 witness: a listener that subscribed after the first frame has received
\* a later one, and frames were processed after another listener was
\* unsubscribed, which got none of them
C18_Witness ==
  \E l, m \in ListenerIds :
    /\ l # m
    /\ lsubAt[l] >= 1
    /\ lrecv[l] # <<>>
    /\ lunsub[m] = "closed"
    /\ Delivered(m) = <<>>
    /\ ldrop[m] = {}
    /\ Len(bseq) > lsubAt[m]
    /\ bpc = "select"


\* C19: ListenerCount is the number of listeners that have been subscribed
\* and not yet unsubscribed, whatever the interleaving of the Subscribe and
\* Unsubscribe calls of distinct listeners (and of Run's passes).
C19_Count ==
  /\ ListenerCount = Cardinality({l \in created : lunsub[l] = "no"})
  /\ ListenerCount = Cardinality(created) - Cardinality({l \in ListenerIds : lunsub[l] # "no"})

C19_CountStep ==
  /\ created' # created => ListenerCount' = ListenerCount + 1
  /\ (\E l \in ListenerIds : lunsub[l] = "no" /\ lunsub'[l] # "no")
       => ListenerCount' = ListenerCount - 1
  /\ (created' = created /\ \A l \in ListenerIds : lunsub[l] = "no" => lunsub'[l] = "no")
       => ListenerCount' = ListenerCount

C19_ListenerCount == []C19_Count /\ [][C19_CountStep]_vars

\* C19 witness: two listeners were subscribed, one of them has been
\* unsubscribed, and the count is read while a pass of Run holds the read lock
C19_Witness ==
  /\ Cardinality(created) >= 2
  /\ ListenerCount = 1
  /\ \E l \in created : lunsub[l] = "closed"
  /\ bpc = "fanout"


\* C20: once the cancel token has fired or the source has been closed, Run
\* returns in the end, with or without listeners and whatever their queues
\* hold; and it returns for no other reason.
C20_Returns == (cancelled \/ frameChClosed) ~> (bpc = "returned")

C20_ReturnStep ==
  (bpc # "returned" /\ bpc' = "returned") =>
    /\ bpc = "select"
    /\ cancelled \/ (frameChClosed /\ frameCh = <<>>)

C20_RunReturns == C20_Returns /\ [][C20_ReturnStep]_vars

\* C20 witness: Run has returned on the closed source, without a cancel,
\* while a subscribed listener's queue was full
C20_Witness ==
  /\ bpc = "returned"
  /\ ~cancelled
  /\ frameChClosed
  /\ \E l \in listeners : Len(lq[l]) = ListenerCap


\* C21: after the cancel token fires Run returns in the end, wherever it
\* waits; it closes the frame channel at its return and only there, hence
\* once, and nothing is sent on the channel after the close.
C21_Returns == cancelled ~> (ppc = "returned" /\ frameChClosed)

C21_CloseStep ==
  /\ (ppc' = "returned") <=> frameChClosed'
  /\ frameChClosed' # frameChClosed =>
       /\ ~frameChClosed
       /\ ppc \in {"wait"}
       /\ cancelled
  /\ ppc = "returned" => ppc' = "returned"
  /\ frameChClosed => frameCh' \in {frameCh} \cup (IF frameCh = <<>> THEN {} ELSE {Tail(frameCh)})

C21_RunStops == C21_Returns /\ [][C21_CloseStep]_vars

\* C21 witness: Run has returned and closed the channel after it had been
\* playing a track into a full frame channel
C21_Witness ==
  /\ ppc = "returned"
  /\ frameChClosed
  /\ Len(frameCh) = FrameChCap
  /\ playedSeq # <<>>
  /\ Len(playedSeq) < nextTrack - 1


\* C22: after the cancel token has fired and the pipeline and the broadcaster
\* have stopped, every subscriber loop exits and unsubscribes its listener,
\* so that the listener set becomes empty in the end.
C22_Stopped == cancelled /\ frameChClosed /\ bpc = "returned"

C22_ListenersLeave == C22_Stopped ~> (listeners = {})


\* C23: after the cancel token fires Scheduler.Run returns in the end,
\* wherever in its loop it is (the model's cap on the number of generation
\* attempts stops the loop at the buffer test instead), and it returns only
\* at the head of the loop on a fired token.
C23_Returns == cancelled ~> (spc = "returned" \/ AttemptsExhausted)

C23_ReturnStep ==
  (spc # "returned" /\ spc' = "returned") => (spc = "top" /\ cancelled)

C24_PollStep ==
  /\ (InPoll /\ ~InPoll') =>
       \/ /\ spc = "poll" /\ cancelled
          /\ attempt \in failedAttempts' /\ spc' = PollErrorNext
       \/ /\ spc = "pollreq" /\ SPollAnswer("failed")
          /\ attempt \in failedAttempts' /\ spc' = PollErrorNext
       \/ /\ spc = "pollreq" /\ SPollAnswer("success")
          /\ \/ attempt \in failedAttempts' /\ spc' = PollErrorNext
             \/ attempt \notin failedAttempts' /\ spc' = "enqueue"
  /\ \A resp \in {"running", "empty", "transport_error", "decode_error"} :
       SPollAnswer(resp) => spc' = "pollsleep" /\ failedAttempts' = failedAttempts
  /\ SPollAnswer("failed") => ~InPoll' /\ attempt \in failedAttempts'
  /\ SPollAnswer("success") => ~InPoll'
  /\ (spc = "pollsleep" /\ spc' # spc) => spc' = "poll"
  /\ (spc = "poll" /\ spc' # spc /\ ~cancelled) => spc' = "pollreq"

C24_PollReturns == [][C24_PollStep]_vars

\* C24 witness: a poll is sleeping its interval after a round that did not
\* end it, in a run where an earlier poll ended with an error
C24_Witness ==
  /\ spc = "pollsleep"
  /\ ~cancelled
  /\ failedAttempts # {}
  /\ schedEnqueued # {}


(***************************************************************************)
(* Claims about the generator client's functions (SpecExtract)             *)
(***************************************************************************)
\* The result carries a reference: it parses and its first item has a File
HasRef(in) == in.json = "ok" /\ in.items >= 1 /\ in.file # ""

\* The reference carries a non-empty path parameter and that file exists
SharedHit(in) ==
  HasRef(in) /\ UrlParses(in.file) /\ QueryPath(in.file) # "" /\ in.stat

C25_Resolved(in, out) ==
  IF SharedHit(in)
  THEN out = [kind |-> "path", path |-> <<OutputDir, QueryPath(in.file)>>,
              downloaded |-> FALSE]
  ELSE /\ out.downloaded
       /\ \/ out.kind = "path" /\ out.path = <<"tmp", "drift-*.mp3">> /\ in.download = "ok"
          \/ out.kind = "error" /\ out.err = in.download /\ in.download # "ok"

\* C25 as stated: the path resolution returns the shared-directory path
\* exactly when the reference has a non-empty path parameter and the file
\* exists, and in every other case it downloads and returns the temporary
\* file's path or the download's error.
C25_SharedOrDownload == fnOut # NoValue => C25_Resolved(fnIn, fnOut)

\* C25: for a result that carries a reference the resolution is as stated;
\* a result that does not parse, has no item or has an empty File is
\* answered with an error and nothing is downloaded.
C25_PathResolution ==
  fnOut # NoValue =>
    IF HasRef(fnIn)
    THEN C25_Resolved(fnIn, fnOut)
    ELSE /\ fnOut.kind = "error"
         /\ ~fnOut.downloaded
         /\ fnOut.err = IF fnIn.json = "bad" THEN "parse result items"
                        ELSE "no audio file in result"

\* C25 witness: the reference names a path, the file is not in the shared
\* directory, and the download's temporary file is returned
C25_Witness ==
  /\ fnOut # NoValue
  /\ HasRef(fnIn)
  /\ QueryPath(fnIn.file) # ""
  /\ ~fnIn.stat
  /\ fnOut.kind = "path"
  /\ fnOut.downloaded


(***************************************************************************)
(* Claims about the generation buffer (SpecScheduler)                      *)
(***************************************************************************)
\* The tracks the scheduler has enqueued that have not started playing: those
\* in the input queue, the one the decoder holds, those decoded and waiting
TracksWaiting ==
  Len(trackCh) + (IF dpc = "send" THEN 1 ELSE 0) + Len(decodedCh)

\* C26: the number of tracks the scheduler has enqueued that have not yet
\* started playing never exceeds buffer_ahead.
C26_BufferBounded == TracksWaiting <= BufferAhead


\* C27: the scheduler starts a generation only in an iteration in which it
\* saw fewer than buffer_ahead tracks in the input queue; being the only
\* caller of Enqueue, with buffer_ahead no larger than the queue's capacity,
\* it never finds the queue full at its Enqueue and the queue never holds
\* more than buffer_ahead tracks.
C27_QueueBounded ==
  /\ BufferAhead <= TrackChCap
  /\ Len(trackCh) <= BufferAhead
  /\ spc \in {"submit", "gensleep", "poll", "pollreq", "pollsleep", "enqueue"}
       => Len(trackCh) < BufferAhead
  /\ spc = "enqueue" => ENABLED SEnqueue

C27_GenerateStep ==
  /\ (spc # "submit" /\ spc' = "submit") =>
       (spc = "buffer" /\ Len(trackCh) < BufferAhead)
  /\ Len(trackCh') > Len(trackCh) =>
       (spc = "enqueue" /\ trackCh' = Append(trackCh, attempt))

C27_EnqueueNeverBlocks == []C27_QueueBounded /\ [][C27_GenerateStep]_vars

\* C27 witness: the scheduler's Enqueue has just filled the input queue up
\* to buffer_ahead
C27_Witness ==
  /\ spc = "top"
  /\ Len(trackCh) = BufferAhead
  /\ attempt \in schedEnqueued
  /\ trackCh[Len(trackCh)] = attempt


(***************************************************************************)
(* Claims about CrossfadeFrames (SpecCrossfade)                            *)
(***************************************************************************)
\* C28: for frames a and b of equal length CrossfadeFrames(a, b, 0) is a,
\* CrossfadeFrames(a, b, 1) is b, and at every progress every output sample
\* lies in [-32768, 32767].
C28_Crossfade ==
  fnOut # NoValue =>
    /\ Len(fnOut.frame) = Len(fnIn.outgoing)
    /\ fnIn.k = 0 => fnOut.frame = fnIn.outgoing
    /\ fnIn.k = ProgressSteps => fnOut.frame = fnIn.incoming
    /\ \A j \in 1..Len(fnOut.frame) :
         MinInt16 <= fnOut.frame[j] /\ fnOut.frame[j] <= MaxInt16

\* C28 witness: both frames at the extremes of the range, blended half way
C28_Witness ==
  /\ fnOut # NoValue
  /\ 2 * fnIn.k = ProgressSteps
  /\ fnIn.outgoing[1] = MaxInt16 /\ fnIn.incoming[1] = MaxInt16
  /\ fnIn.outgoing[2] = MinInt16 /\ fnIn.incoming[2] = MinInt16
  /\ fnOut.frame[1] = MaxInt16 /\ fnOut.frame[2] = MinInt16


(***************************************************************************)
(* Claims about TrackName (SpecTrackName)                                  *)
(***************************************************************************)
\* The 64-bit FNV-1a hashes of "", "a", "b" and "ab": cbf29ce484222325,
\* af63dc4c8601ec8c, af63df4c8601f1a5, 089c4407b545986a
Fnv1aKnown(id) ==
  CASE id = <<>> -> <<8997, 33826, 40164, 52210>>
    [] id = <<97>> -> <<60556, 34305, 56396, 44899>>
    [] id = <<98>> -> <<61861, 34305, 57164, 44899>>
    [] id = <<97, 98>> -> <<39018, 46405, 17415, 2204>>

RECURSIVE ReachableFrom(_)
ReachableFrom(S) ==
  LET N == S \cup UNION {TransitionTargets(g) : g \in S}
  IN IF N = S THEN S ELSE ReachableFrom(N)

\* C30: the graph has 14 genres, every genre has a neighbour, every
\* neighbour is a genre of the graph that names the genre back, no name
\* outside the graph has an entry, and from the genre the scheduler started
\* in the transitions reach every genre.
C30_Graph ==
  /\ Cardinality(GenreNames) = 14
  /\ \A g \in GenreNames :
       /\ Adjacent(g) # {}
       /\ Adjacent(g) \subseteq GenreNames
       /\ \A n \in Adjacent(g) : g \in Adjacent(n)
  /\ Adjacent("polka") = {}
  /\ fnOut.genre \in GenreNames
  /\ ReachableFrom({fnIn.start}) = GenreNames
  /\ ReachableFrom({fnOut.genre}) = GenreNames

\* C30 witness: started in bossa nova, the transitions have arrived at drum
\* and bass, seven edges away
C30_Witness ==
  /\ fnIn = [start |-> "bossa nova"]
  /\ fnOut = [genre |-> "drum and bass"]


(***************************************************************************)
(* Claims about playTrack (SpecPipeline)                                   *)
(***************************************************************************)
\* A frame is sent on the output channel
FrameSent == Len(frameCh') > Len(frameCh)

\* The crossfade loop emits frame i as the mix of outgoing[cfStart + i] and
\* incoming[i], counting i from 0
C31_MixStep ==
  /\ (ppc = "peek" /\ ppc' = "xf_tick") => pi' = 0
  /\ (ppc = "xf_send" /\ FrameSent) =>
       /\ Last(frameCh') = [out |-> dt.id, oi |-> CfStart(dt.len) + pi,
                            in |-> next.id, ii |-> pi, n |-> FrameSamples]
       /\ pi' = pi + 1 \/ ppc' = "entry"

\* The crossfade loop ends after cf_frames frames, at the end of the outgoing
\* track, and hands the incoming track over with start frame cf_frames
C31_HandOverStep ==
  /\ (ppc = "xf_send" /\ ppc' = "entry") =>
       /\ pi + 1 = CfFrames(dt.len)
       /\ CfStart(dt.len) + pi + 1 = TotalFrames(dt.len)
       /\ dt' = next
       /\ startFrame' = CfFrames(dt.len)
  /\ (ppc = "peek" /\ ppc' = "entry") => CfFrames(dt.len) = 0

\* The track carried over from a crossfade goes on at its frame cf_frames:
\* no frame sent afterwards holds an earlier frame of it
C31_ResumeStep == FrameSent => Last(frameCh').oi >= startFrame

\* C31: when a next decoded track is ready at cf_start the pipeline emits
\* exactly cf_frames crossfaded frames, the i-th mixing outgoing[cf_start + i]
\* with incoming[i], which uses the outgoing range [cf_start, N), and the
\* incoming track then resumes at frame cf_frames.
C31_CrossfadeLoop == [][C31_MixStep /\ C31_HandOverStep /\ C31_ResumeStep]_vars

\* The parts of C31 on their own
C31_Mix == [][C31_MixStep]_vars
C31_HandOver == [][C31_HandOverStep]_vars

\* The verbatim frame i of the track played
C32_Verbatim(i) ==
  [out |-> dt.id, oi |-> i, in |-> 0, ii |-> 0, n |-> FrameSamples]

\* A freshly dequeued track that finds no next track at cf_start: its first
\* loop sends frames 0 .. cf_start - 1, its tail loop frames cf_start .. N - 1,
\* each verbatim and each index once, and Run then waits for a track that it
\* starts at frame 0
C32_FreshStep ==
  /\ (ppc = "wait" /\ ppc' = "entry") => startFrame' = 0
  /\ startFrame = 0 =>
       /\ (ppc = "entry" /\ ppc' # "entry") =>
            /\ pi' = 0
            /\ ppc' = "peek" => CfStart(dt.len) = 0
       /\ (ppc = "pre_send" /\ FrameSent) =>
            /\ Last(frameCh') = C32_Verbatim(pi)
            /\ IF pi + 1 < CfStart(dt.len)
               THEN ppc' = "pre_tick" /\ pi' = pi + 1
               ELSE ppc' = "peek" /\ pi + 1 = CfStart(dt.len)
       /\ (ppc = "peek" /\ decodedCh = <<>> /\ ppc' # "peek") =>
            IF CfStart(dt.len) < TotalFrames(dt.len)
            THEN ppc' = "tail_tick" /\ pi' = CfStart(dt.len)
            ELSE ppc' = "wait"
       /\ (ppc = "tail_send" /\ FrameSent) =>
            /\ Last(frameCh') = C32_Verbatim(pi)
            /\ IF pi + 1 < TotalFrames(dt.len)
               THEN ppc' = "tail_tick" /\ pi' = pi + 1
               ELSE ppc' = "wait" /\ startFrame' = 0 /\ dt' = NoTrack

\* C32: with no next decoded track ready at cf_start a freshly dequeued track
\* of N frames is emitted as its N frames verbatim, in index order, with no
\* crossfaded frame; the playback loop then waits for the next decoded track
\* and starts it at frame 0.
C32_VerbatimTail == [][C32_FreshStep]_vars

\* C32 witness: with a crossfade configured, the only track so far has been
\* played to its last frame without a skip and Run is waiting
C32_Witness ==
  /\ crossfadeMs > 0
  /\ ppc = "wait"
  /\ playedSeq = <<1>>
  /\ skippedTracks = {}
  /\ frameCh # <<>>
  /\ Last(frameCh).out = 1
  /\ Last(frameCh).in = 0
  /\ Last(frameCh).oi + 1 = trackDuration \div FrameDurationMs
  /\ Last(frameCh).oi >= 2

(***************************************************************************)
(* Claims about the frame counts of playTrack (SpecFrameCounts)            *)
(***************************************************************************)
\* floor(d x 50) for a duration of crossfadeMs milliseconds
C33_DurationFrames == (crossfadeMs * 50) \div 1000

\* C33: for a track of N frames and a crossfade duration d, fractional or
\* not, cf_frames = min(floor(d x 50), floor(N / 2)) and cf_start = N -
\* cf_frames.
C33_FrameCounts ==
  fnOut # NoValue =>
    LET N == fnIn.len \div FrameSamples
        half == N \div 2
        cf == IF C33_DurationFrames < half THEN C33_DurationFrames ELSE half
    IN /\ fnOut.totalFrames = N
       /\ fnOut.cfFrames = cf
       /\ fnOut.cfStart = N - cf

\* The same for the durations that are a whole number of seconds
C33_WholeSeconds == crossfadeMs % 1000 = 0 => C33_FrameCounts

(***************************************************************************)
(* Claims about sendFrame (SpecPipelineStop)                               *)
(***************************************************************************)
\* A step sends at most one frame, sends it from the second select of
\* sendFrame and leaves that select; the second select is reached only by
\* taking a tick from ticker.C
C34_TickStep ==
  /\ Len(frameCh') <= Len(frameCh) + 1
  /\ FrameSent => ppc \in SendStates /\ ppc' \notin SendStates
  /\ (ppc' \in SendStates /\ ppc \notin SendStates) =>
       /\ ppc \in TickStates
       /\ tickC > 0
       /\ tickC' = tickC - 1
  /\ (ppc \in SendStates /\ ppc' \in SendStates) => ppc' = ppc /\ ~FrameSent

\* C34: the pipeline emits at most one frame per tick it has consumed: every
\* frame sent follows a tick taken for it alone, and the ticker holds at most
\* one tick, so a stall is not made up for by frames sent back to back.
C34_OneFramePerTick == [](tickC <= TickerCap) /\ [][C34_TickStep]_vars

\* C34 witness: after a stall (a tick waits in the ticker while the previous
\* frame is still in the channel) the playback loop has taken a tick and is
\* about to send its next frame
C34_Witness ==
  /\ ppc \in SendStates
  /\ frameCh # <<>>
  /\ Last(frameCh).out = dt.id
  /\ tickC = TickerCap

(***************************************************************************)
(* Claims about resetDwell (SpecResetDwell)                                *)
(***************************************************************************)
\* C35: a dwell-timer reset sets dwell_end to now + dwell with dwell_min <=
\* dwell <= dwell_max when dwell_min < dwell_max, and with dwell = dwell_min
\* when dwell_max - dwell_min is not positive.
C35_DwellEnd ==
  fnOut # NoValue =>
    LET dwell == fnOut.dwellEnd - fnIn.now
    IN IF fnIn.min < fnIn.max
       THEN fnIn.min <= dwell /\ dwell <= fnIn.max
       ELSE dwell = fnIn.min

\* C35 witness: resets with a positive spread that drew more than the
\* minimum, and a reset with dwell_max below dwell_min
C35_Witness ==
  /\ fnOut # NoValue
  /\ fnIn.min = 1
  /\ fnIn.max = 3
  /\ fnOut.dwellEnd = fnIn.now + 2

\* A reset with dwell_max below dwell_min has set dwell_end to now + dwell_min
C35_WitnessNoSpread ==
  /\ fnOut # NoValue
  /\ fnIn.max < fnIn.min
  /\ fnOut.dwellEnd = fnIn.now + fnIn.min

(***************************************************************************)
(* Claims about automatic transitions and generation (SpecScheduler)       *)
(***************************************************************************)
\* While auto_dj is off (set_auto_dj(false) has returned and set_auto_dj(true)
\* was not called since) a step changes current_genre only by applying a
\* manual override
C36_GenreStep ==
  (~autoDJ /\ currentGenre' # currentGenre) =>
    /\ spc = "override"
    /\ genreOverrideCh # <<>>
    /\ currentGenre' = Head(genreOverrideCh)

\* C36: the scheduler changes current_genre by an automatic transition only
\* while auto_dj is enabled, under any interleaving of the run loop with
\* set_auto_dj.
C36_OnlyWhileEnabled == [][C36_GenreStep]_vars

\* The same for the test Run makes: it goes on to transitionGenre only when
\* it has read auto_dj enabled and the dwell timer expired
C36_ReadStep == (spc = "dwell" /\ spc' = "transition") => autoDJ /\ dwellExpired
C36_TransitionsAfterRead == [][C36_ReadStep]_vars

(***************************************************************************)
(* Claims about the use of a track's frames (SpecPipeline)                 *)
(***************************************************************************)
\* A sent frame holds a frame of the outgoing track, and of the incoming one
\* if it is crossfaded, that lies after every frame of that track sent before
C37_UseStep ==
  FrameSent =>
    /\ Last(frameCh').out = dt.id
    /\ Last(frameCh').oi > dtUsed
    /\ Last(frameCh').in # 0 =>
         /\ Last(frameCh').in = next.id
         /\ Last(frameCh').ii > nextUsed

\* C37: across a track's whole playback, as the incoming side of a crossfade,
\* as verbatim body and as the outgoing side or tail, each of its frame
\* indices contributes to at most one emitted frame and the indices are used
\* in increasing order, whatever the lengths of consecutive tracks.
C37_EachFrameOnce == [][C37_UseStep]_vars

\* The same while the track played was not carried over from a crossfade
\* with a longer track
C37_FreshStep == startFrame <= CfStart(dt.len) => C37_UseStep
C37_FreshTrackOnce == [][C37_FreshStep]_vars

(***************************************************************************)
(* Claims about the slices of playTrack (SpecSlices)                       *)
(***************************************************************************)
\* C38: playTrack never reads outside either track's sample buffer: for
\* every outgoing length, incoming length, start frame (one beyond the
\* track's frame count included) and crossfade length, every slice it takes
\* lies within [0, len(samples)], and the start frame it returns is not
\* negative.
C38_SlicesInRange ==
  fnOut # NoValue =>
    /\ \A sl \in fnOut.slices :
         /\ 0 <= sl.lo
         /\ sl.lo <= sl.hi
         /\ sl.hi <= sl.len
    /\ fnOut.start >= 0

\* C38 witness: a track carried over with a start frame beyond its frame
\* count has crossfaded into a track too short for the whole crossfade, so
\* that the loop was left by its break
C38_Witness ==
  /\ fnOut # NoValue
  /\ fnIn.start > fnIn.len \div FrameSamples
  /\ fnIn.nextLen >= 0
  /\ \E sl \in fnOut.slices : sl.of = "next.samples"
  /\ Cardinality({sl \in fnOut.slices : sl.of = "next.samples"}) < fnOut.start

(***************************************************************************)
(* Claims about the order of the tracks (SpecPipeline)                     *)
(***************************************************************************)
\* C39: the tracks that become the current track do so in the order in
\* which they were enqueued (Enqueue numbers them 1, 2, ...), each at most
\* once, and only tracks that were enqueued and decoded.
C39_PlayedInOrder ==
  /\ \A i \in 1..Len(playedSeq) :
       /\ playedSeq[i] \in Enqueued \ decodeFailed
       /\ \A j \in 1..Len(playedSeq) : i < j => playedSeq[i] < playedSeq[j]
  /\ curTrack = IF playedSeq = <<>> THEN 0 ELSE Last(playedSeq)

\* C39 witness: the first track failed to decode, the second was played and
\* crossfaded into the third, which became the current track and was skipped
C39_Witness ==
  /\ playedSeq = <<2, 3>>
  /\ decodeFailed = {1}
  /\ skippedTracks = {3}
  /\ \E i \in 1..Len(frameCh) : frameCh[i].out = 2 /\ frameCh[i].in = 3

(***************************************************************************)
(* Claims about the TrackInfo of a generation (SpecScheduler)              *)
(***************************************************************************)
\* generateTrack starts by reading the current genre
C40_StartStep == (spc = "buffer" /\ spc' = "submit") => genStart' = currentGenre

\* The TrackInfo just enqueued carries the genre read at the start of its
\* generation, and the caption of that generation was produced for it
C40_Info ==
  lastInfo # NoInfo =>
    /\ lastInfo.startedIn # ""
    /\ lastInfo.Genre = lastInfo.startedIn
    /\ lastInfo.captionFor = lastInfo.startedIn

\* C40: each TrackInfo the scheduler enqueues carries the genre that was
\* current when its generation started, and its caption was produced for
\* that same genre, whatever happens to current_genre meanwhile.
C40_GenreOfGeneration == []C40_Info /\ [][C40_StartStep]_vars

\* C40 witness: a track generated for a genre other than the starting one
\* has been enqueued while an override requested during its generation is
\* still waiting to be applied
C40_Witness ==
  /\ lastInfo # NoInfo
  /\ lastInfo.Genre # StartingGenre
  /\ genreOverrideCh # <<>>
  /\ Head(genreOverrideCh) # lastInfo.Genre

\* While generateTrack runs, current_genre is the genre it read: overrides
\* wait in the channel and transitions are made by Run itself
C40_GenreFixedInFlight == genStart # "" => currentGenre = genStart

=============================================================================
